---------------------------- MODULE Spec2Model ----------------------------
(***************************************************************************)
(* qtest client: transport forwarding task (Socket::reader), frame         *)
(* demultiplexer (Reader::read) and command engine (Parser).               *)
(*                                                                         *)
(* Text is a sequence of characters, each a one-character string; the      *)
(* byte 0 that pads the read buffer is the character NUL.                  *)
(***************************************************************************)
EXTENDS Integers, Sequences, FiniteSets, TLC

\* ------------------------------------------------------------------ bounds
\* Size of the forwarding task's read buffer, scaled down from 1024 bytes.
BufSize == 16
\* Events the environment produces in one run: engine calls, IRQ lines of the
\* peer, read errors, a chunk that is not UTF-8, the peer's close and the drop
\* of the Parser.
MaxEvents == 2
\* The place, counted from the start of a line, where the network may split
\* the line in two deliveries.
CutAt == 2

\* --------------------------------------------------------- program constants
\* mpsc::channel(32)
ChannelCap == 32

\* -------------------------------------------------------------------- text
NUL == "NUL"
NL == "\n"
SP == " "

IsWhitespace(c) == c \in {" ", "\n", "\t", "\r"}

Contains(s, c) == \E i \in 1..Len(s) : s[i] = c

RECURSIVE Concat(_)
\* The concatenation of a sequence of texts.
Concat(ss) == IF ss = <<>> THEN <<>> ELSE Head(ss) \o Concat(Tail(ss))

RECURSIVE Repeat(_, _)
Repeat(c, n) == IF n <= 0 THEN <<>> ELSE <<c>> \o Repeat(c, n - 1)

RECURSIVE SplitWsFrom(_, _, _, _)
SplitWsFrom(s, i, cur, acc) ==
    IF i > Len(s)
    THEN IF cur = <<>> THEN acc ELSE Append(acc, cur)
    ELSE IF IsWhitespace(s[i])
         THEN SplitWsFrom(s, i + 1, <<>>, IF cur = <<>> THEN acc ELSE Append(acc, cur))
         ELSE SplitWsFrom(s, i + 1, Append(cur, s[i]), acc)

\* str::split_whitespace: the maximal runs of non-whitespace characters.
split_whitespace(s) == SplitWsFrom(s, 1, <<>>, <<>>)

RECURSIVE LinesFrom(_, _, _, _)
LinesFrom(s, i, cur, acc) ==
    IF i > Len(s)
    THEN IF cur = <<>> THEN acc ELSE Append(acc, cur)
    ELSE IF s[i] = NL
         THEN LinesFrom(s, i + 1, <<>>,
                        Append(acc, IF cur # <<>> /\ cur[Len(cur)] = "\r"
                                    THEN SubSeq(cur, 1, Len(cur) - 1)
                                    ELSE cur))
         ELSE LinesFrom(s, i + 1, Append(cur, s[i]), acc)

\* str::lines: split at "\n", the terminator (and a "\r" before it) removed;
\* a final piece without terminator is a line when it is not empty.
lines(s) == LinesFrom(s, 1, <<>>, <<>>)

RECURSIVE TrimStart(_, _)
TrimStart(s, c) == IF s # <<>> /\ Head(s) = c THEN TrimStart(Tail(s), c) ELSE s

RECURSIVE TrimEnd(_, _)
TrimEnd(s, c) ==
    IF s # <<>> /\ s[Len(s)] = c THEN TrimEnd(SubSeq(s, 1, Len(s) - 1), c) ELSE s

\* str::trim_matches(c)
trim_matches(s, c) == TrimEnd(TrimStart(s, c), c)

RECURSIVE trim_start_matches_0x(_)
\* str::trim_start_matches("0x"): every leading repetition of "0x" removed.
trim_start_matches_0x(s) ==
    IF Len(s) >= 2 /\ s[1] = "0" /\ s[2] = "x"
    THEN trim_start_matches_0x(SubSeq(s, 3, Len(s)))
    ELSE s

RECURSIVE JoinSp(_)
\* [&str]::join(" ")
JoinSp(toks) ==
    IF toks = <<>> THEN <<>>
    ELSE IF Len(toks) = 1 THEN toks[1]
    ELSE toks[1] \o <<SP>> \o JoinSp(Tail(toks))

\* ----------------------------------------------------------------- numbers
Digits == <<"0", "1", "2", "3", "4", "5", "6", "7", "8", "9",
            "a", "b", "c", "d", "e", "f">>

UpperDigits == <<"0", "1", "2", "3", "4", "5", "6", "7", "8", "9",
                 "A", "B", "C", "D", "E", "F">>

\* char::to_digit(radix): the digit's value, or -1.
to_digit(c, radix) ==
    IF \E d \in 1..radix : Digits[d] = c \/ UpperDigits[d] = c
    THEN (CHOOSE d \in 1..radix : Digits[d] = c \/ UpperDigits[d] = c) - 1
    ELSE -1

RECURSIVE Pow2(_)
Pow2(n) == IF n = 0 THEN 1 ELSE 2 * Pow2(n - 1)

RECURSIVE ParseDigits(_, _, _, _)
\* Accumulates the digits of s; -1 on an invalid digit or on overflow of max.
ParseDigits(s, radix, max, acc) ==
    IF s = <<>> THEN acc
    ELSE LET d == to_digit(Head(s), radix)
         IN  IF d < 0 THEN -1
             ELSE IF acc > (max - d) \div radix THEN -1
             ELSE ParseDigits(Tail(s), radix, max, acc * radix + d)

\* <unsigned>::from_str_radix(s, radix) for a type whose largest value is max:
\* the value, or -1 for Err (empty, a lone sign, "-", a bad digit, overflow).
from_str_radix(s, radix, max) ==
    IF s = <<>> THEN -1
    ELSE IF s = <<"+">> \/ s = <<"-">> THEN -1
    ELSE IF Head(s) = "+" THEN ParseDigits(Tail(s), radix, max, 0)
    ELSE ParseDigits(s, radix, max, 0)

RECURSIVE FmtRadix(_, _)
FmtRadix(n, radix) ==
    IF n < radix THEN <<Digits[n + 1]>>
    ELSE FmtRadix(n \div radix, radix) \o <<Digits[(n % radix) + 1]>>

\* format!("{}", n) for an integer
FmtDec(n) == IF n < 0 THEN <<"-">> \o FmtRadix(-n, 10) ELSE FmtRadix(n, 10)

\* format!("{:#x}", n) for an unsigned integer
FmtHex(n) == <<"0", "x">> \o FmtRadix(n, 16)


\* The largest integer the model represents; stands for the largest value of
\* the 32- and 64-bit types, which no text of the model reaches.
ModelMax == Pow2(30) + (Pow2(30) - 1)

\* <uN>::MAX
MaxOf(bits) == IF bits <= 30 THEN Pow2(bits) - 1 ELSE ModelMax

\* ------------------------------------------------------- Response and Irq
RespOk == [tag |-> "Ok", text |-> <<>>]
RespOkVal(t) == [tag |-> "OkVal", text |-> t]
RespErr(t) == [tag |-> "Err", text |-> t]

\* A conversion that keeps only the first token after OK.
ResponseFrom_FirstValue(s) ==
    LET s_parts == split_whitespace(s)
    IN  IF s_parts = <<>> \/ s_parts[1] # <<"O", "K">>
        THEN RespErr(s)
        ELSE IF Len(s_parts) = 1
             THEN RespOk
             ELSE RespOkVal(s_parts[2])

\* impl From<&str> for Response
ResponseFrom(s) ==
    LET s_parts == split_whitespace(s)
    IN  IF s_parts = <<>> \/ s_parts[1] # <<"O", "K">>
        THEN RespErr(s)
        ELSE IF Len(s_parts) = 1
             THEN RespOk
             ELSE RespOkVal(JoinSp(Tail(s_parts)))

\* impl TryFrom<&str> for Irq: [ok, line, state]; ok = FALSE for every Err.
IrqErr == [ok |-> FALSE, line |-> 0, state |-> "None"]
IrqNew(line, state) == [ok |-> TRUE, line |-> line, state |-> state]

\* A conversion that does not look for a token after the line number.
IrqTryFrom_NoTrailing(s) ==
    LET s_parts == split_whitespace(s)
    IN  IF s_parts = <<>> \/ s_parts[1] # <<"I", "R", "Q">> THEN IrqErr
        ELSE IF Len(s_parts) < 2 THEN IrqErr
        ELSE IF s_parts[2] \notin {<<"r", "a", "i", "s", "e">>, <<"l", "o", "w", "e", "r">>}
             THEN IrqErr
        ELSE IF Len(s_parts) < 3 THEN IrqErr
        ELSE LET line == from_str_radix(s_parts[3], 10, MaxOf(64))
             IN  IF line < 0 THEN IrqErr
                 ELSE IrqNew(line, IF s_parts[2] = <<"r", "a", "i", "s", "e">>
                                   THEN "Raise" ELSE "Lower")

IrqTryFrom(s) ==
    LET s_parts == split_whitespace(s)
    IN  IF s_parts = <<>> \/ s_parts[1] # <<"I", "R", "Q">> THEN IrqErr
        ELSE IF Len(s_parts) < 2 THEN IrqErr
        ELSE IF s_parts[2] \notin {<<"r", "a", "i", "s", "e">>, <<"l", "o", "w", "e", "r">>}
             THEN IrqErr
        ELSE IF Len(s_parts) < 3 THEN IrqErr
        ELSE LET line == from_str_radix(s_parts[3], 10, MaxOf(64))
             IN  IF line < 0 THEN IrqErr
                 ELSE IF Len(s_parts) > 3 THEN IrqErr
                 ELSE IrqNew(line, IF s_parts[2] = <<"r", "a", "i", "s", "e">>
                                   THEN "Raise" ELSE "Lower")

\* ------------------------------------------------------------------ base64
B64Alphabet == <<"A", "B", "C", "D", "E", "F", "G", "H", "I", "J", "K", "L", "M", "N", "O", "P", "Q", "R", "S", "T", "U", "V", "W", "X", "Y", "Z", "a", "b", "c", "d", "e", "f", "g", "h", "i", "j", "k", "l", "m", "n", "o", "p", "q", "r", "s", "t", "u", "v", "w", "x", "y", "z", "0", "1", "2", "3", "4", "5", "6", "7", "8", "9", "+", "/">>

\* The byte of a character (the characters the model's data texts use).
ByteOf(c) ==
    CASE c = "a" -> 97 [] c = "b" -> 98 [] c = "c" -> 99
      [] c = "0" -> 48 [] c = "1" -> 49 [] c = "f" -> 102
      [] c = "x" -> 120 [] c = "F" -> 70
      [] OTHER -> 63

RECURSIVE B64Encode(_)
\* GeneralPurpose::encode with the standard alphabet and padding.
B64Encode(data) ==
    IF data = <<>> THEN <<>>
    ELSE IF Len(data) = 1
    THEN LET b1 == ByteOf(data[1])
         IN  <<B64Alphabet[(b1 \div 4) + 1], B64Alphabet[((b1 % 4) * 16) + 1], "=", "=">>
    ELSE IF Len(data) = 2
    THEN LET b1 == ByteOf(data[1])
             b2 == ByteOf(data[2])
         IN  <<B64Alphabet[(b1 \div 4) + 1],
               B64Alphabet[((b1 % 4) * 16 + (b2 \div 16)) + 1],
               B64Alphabet[((b2 % 16) * 4) + 1], "=">>
    ELSE LET b1 == ByteOf(data[1])
             b2 == ByteOf(data[2])
             b3 == ByteOf(data[3])
         IN  <<B64Alphabet[(b1 \div 4) + 1],
               B64Alphabet[((b1 % 4) * 16 + (b2 \div 16)) + 1],
               B64Alphabet[((b2 % 16) * 4 + (b3 \div 64)) + 1],
               B64Alphabet[(b3 % 64) + 1]>>
             \o B64Encode(SubSeq(data, 4, Len(data)))

\* ---------------------------------------------------------------- requests
\* stringify!($name) and the verbs of the format strings.
Verb(name) ==
    CASE name = "clock_step" -> <<"c", "l", "o", "c", "k", "_", "s", "t", "e", "p">>
      [] name = "clock_set" -> <<"c", "l", "o", "c", "k", "_", "s", "e", "t">>
      [] name = "irq_intercept_in" -> <<"i", "r", "q", "_", "i", "n", "t", "e", "r", "c", "e", "p", "t", "_", "i", "n">>
      [] name = "irq_intercept_out" -> <<"i", "r", "q", "_", "i", "n", "t", "e", "r", "c", "e", "p", "t", "_", "o", "u", "t">>
      [] name = "set_irq_in" -> <<"s", "e", "t", "_", "i", "r", "q", "_", "i", "n">>
      [] name = "inb" -> <<"i", "n", "b">>
      [] name = "inw" -> <<"i", "n", "w">>
      [] name = "inl" -> <<"i", "n", "l">>
      [] name = "outb" -> <<"o", "u", "t", "b">>
      [] name = "outw" -> <<"o", "u", "t", "w">>
      [] name = "outl" -> <<"o", "u", "t", "l">>
      [] name = "writeb" -> <<"w", "r", "i", "t", "e", "b">>
      [] name = "writew" -> <<"w", "r", "i", "t", "e", "w">>
      [] name = "writel" -> <<"w", "r", "i", "t", "e", "l">>
      [] name = "writeq" -> <<"w", "r", "i", "t", "e", "q">>
      [] name = "readb" -> <<"r", "e", "a", "d", "b">>
      [] name = "readw" -> <<"r", "e", "a", "d", "w">>
      [] name = "readl" -> <<"r", "e", "a", "d", "l">>
      [] name = "readq" -> <<"r", "e", "a", "d", "q">>
      [] name = "read" -> <<"r", "e", "a", "d">>
      [] name = "write" -> <<"w", "r", "i", "t", "e">>
      [] name = "b64write" -> <<"b", "6", "4", "w", "r", "i", "t", "e">>

\* An engine call: the operation's name and its arguments. n1 is ns, the
\* address or the IRQ line; n2 the value, the size, the level or data_len;
\* opt tells Some from None for clock_step's ns and write's data_len; s1 is
\* the QOM path or the data; s2 the IRQ name.
Op(name, n1, n2, opt, s1, s2) ==
    [name |-> name, n1 |-> n1, n2 |-> n2, opt |-> opt, s1 |-> s1, s2 |-> s2]

InNames == {"inb", "inw", "inl"}
OutNames == {"outb", "outw", "outl"}
WriteNames == {"writeb", "writew", "writel", "writeq"}
ReadNames == {"readb", "readw", "readl", "readq"}

\* The width of the operation's integer type.
Bits(name) ==
    CASE name \in {"inb", "outb", "writeb", "readb"} -> 8
      [] name \in {"inw", "outw", "writew", "readw"} -> 16
      [] name \in {"inl", "outl", "writel", "readl"} -> 32
      [] OTHER -> 64

\* The request text each operation formats (the `data` of its body).
Request(op) ==
    CASE op.name = "clock_step" ->
            IF op.opt THEN Verb(op.name) \o <<SP>> \o FmtDec(op.n1) \o <<NL>>
                      ELSE Verb(op.name) \o <<NL>>
      [] op.name = "clock_set" ->
            Verb(op.name) \o <<SP>> \o FmtDec(op.n1) \o <<NL>>
      [] op.name \in {"irq_intercept_in", "irq_intercept_out"} ->
            Verb(op.name) \o <<SP>> \o op.s1 \o <<NL>>
      [] op.name = "set_irq_in" ->
            Verb(op.name) \o <<SP>> \o op.s1 \o <<SP>> \o op.s2 \o <<SP>>
                \o FmtDec(op.n1) \o <<SP>> \o FmtDec(op.n2) \o <<NL>>
      [] op.name \in InNames ->
            Verb(op.name) \o <<SP>> \o FmtHex(op.n1) \o <<NL>>
      [] op.name \in OutNames ->
            Verb(op.name) \o <<SP>> \o FmtHex(op.n1) \o <<SP>> \o FmtHex(op.n2) \o <<NL>>
      [] op.name \in WriteNames ->
            Verb(op.name) \o <<SP>> \o FmtHex(op.n1) \o <<SP>> \o FmtHex(op.n2)
      [] op.name \in ReadNames ->
            Verb(op.name) \o <<SP>> \o FmtHex(op.n1) \o <<NL>>
      [] op.name = "read" ->
            Verb(op.name) \o <<SP>> \o FmtHex(op.n1) \o <<SP>> \o FmtDec(op.n2) \o <<NL>>
      [] op.name = "write" ->
            Verb(op.name) \o <<SP>> \o FmtHex(op.n1) \o <<SP>>
                \o FmtDec(IF op.opt THEN op.n2 ELSE Len(op.s1))
                \o <<SP, "0", "x">> \o trim_start_matches_0x(op.s1) \o <<NL>>
      [] op.name = "b64write" ->
            Verb(op.name) \o <<SP>> \o FmtHex(op.n1) \o <<SP>> \o FmtDec(Len(op.s1))
                \o <<SP>> \o B64Encode(op.s1) \o <<NL>>


\* ---------------------------------------------------------------- decoding
\* io::Result of an engine call: a Response, a number, a text or an error.
NoResp == [tag |-> "None", text |-> <<>>]
ResOfResponse(r) == [tag |-> "Response", resp |-> r, num |-> 0, err |-> "", text |-> <<>>]
ResOfNum(n) == [tag |-> "Num", resp |-> NoResp, num |-> n, err |-> "", text |-> <<>>]
ResOfText(t) == [tag |-> "Text", resp |-> NoResp, num |-> 0, err |-> "", text |-> t]
ResErr(e, t) == [tag |-> "Err", resp |-> NoResp, num |-> 0, err |-> e, text |-> t]

CouldNotReceive == ResErr("Could not receive response", <<>>)

RawNames == {"clock_step", "irq_intercept_in", "irq_intercept_out", "set_irq_in",
             "write", "b64write"} \cup OutNames \cup WriteNames

\* A decoding that hands the payload to from_str_radix with its prefix.
Decode_NoTrim(op, response) ==
    CASE op.name \in RawNames -> ResOfResponse(response)
      [] op.name = "clock_set" ->
            IF response.tag = "OkVal"
            THEN LET v == from_str_radix(response.text, 10, MaxOf(64))
                 IN  IF v < 0 THEN ResErr("Could not parse value", response.text)
                     ELSE ResOfNum(v)
            ELSE IF response.tag = "Err"
                 THEN ResErr("invalid response", response.text)
                 ELSE ResErr("Invalid response", <<>>)
      [] op.name \in InNames \cup ReadNames ->
            IF response.tag = "OkVal"
            THEN LET v == from_str_radix(response.text, 16, MaxOf(Bits(op.name)))
                 IN  IF v < 0 THEN ResErr("Could not parse value", response.text)
                     ELSE ResOfNum(v)
            ELSE ResErr("Invalid response", <<>>)
      [] op.name = "read" ->
            IF response.tag = "OkVal"
            THEN ResOfText(response.text)
            ELSE ResErr("Invalid response", <<>>)

\* A decoding that turns a remote Err into an error result for the
\* operations that return the Response.
Decode_ErrIsError(op, response) ==
    CASE op.name \in RawNames ->
            IF response.tag = "Err" THEN ResErr("Invalid response", response.text)
            ELSE ResOfResponse(response)
      [] op.name = "clock_set" ->
            IF response.tag = "OkVal"
            THEN LET v == from_str_radix(response.text, 10, MaxOf(64))
                 IN  IF v < 0 THEN ResErr("Could not parse value", response.text)
                     ELSE ResOfNum(v)
            ELSE IF response.tag = "Err"
                 THEN ResErr("invalid response", response.text)
                 ELSE ResErr("Invalid response", <<>>)
      [] op.name \in InNames \cup ReadNames ->
            IF response.tag = "OkVal"
            THEN LET v == from_str_radix(trim_start_matches_0x(response.text), 16,
                                         MaxOf(Bits(op.name)))
                 IN  IF v < 0 THEN ResErr("Could not parse value", response.text)
                     ELSE ResOfNum(v)
            ELSE ResErr("Invalid response", <<>>)
      [] op.name = "read" ->
            IF response.tag = "OkVal"
            THEN ResOfText(response.text)
            ELSE ResErr("Invalid response", <<>>)

\* A decoding that parses at full width and keeps the low bits of the
\* operation's width.
Decode_Wrap(op, response) ==
    CASE op.name \in RawNames -> ResOfResponse(response)
      [] op.name = "clock_set" ->
            IF response.tag = "OkVal"
            THEN LET v == from_str_radix(response.text, 10, MaxOf(64))
                 IN  IF v < 0 THEN ResErr("Could not parse value", response.text)
                     ELSE ResOfNum(v)
            ELSE IF response.tag = "Err"
                 THEN ResErr("invalid response", response.text)
                 ELSE ResErr("Invalid response", <<>>)
      [] op.name \in InNames \cup ReadNames ->
            IF response.tag = "OkVal"
            THEN LET v == from_str_radix(trim_start_matches_0x(response.text), 16,
                                         MaxOf(64))
                 IN  IF v < 0 THEN ResErr("Could not parse value", response.text)
                     ELSE ResOfNum(v % (MaxOf(Bits(op.name)) + 1))
            ELSE ResErr("Invalid response", <<>>)
      [] op.name = "read" ->
            IF response.tag = "OkVal"
            THEN ResOfText(response.text)
            ELSE ResErr("Invalid response", <<>>)

\* What each operation makes of the Response it took from response_queue.
Decode(op, response) ==
    CASE op.name \in RawNames -> ResOfResponse(response)
      [] op.name = "clock_set" ->
            IF response.tag = "OkVal"
            THEN LET v == from_str_radix(response.text, 10, MaxOf(64))
                 IN  IF v < 0 THEN ResErr("Could not parse value", response.text)
                     ELSE ResOfNum(v)
            ELSE IF response.tag = "Err"
                 THEN ResErr("invalid response", response.text)
                 ELSE ResErr("Invalid response", <<>>)
      [] op.name \in InNames \cup ReadNames ->
            IF response.tag = "OkVal"
            THEN LET v == from_str_radix(trim_start_matches_0x(response.text), 16,
                                         MaxOf(Bits(op.name)))
                 IN  IF v < 0 THEN ResErr("Could not parse value", response.text)
                     ELSE ResOfNum(v)
            ELSE ResErr("Invalid response", <<>>)
      [] op.name = "read" ->
            IF response.tag = "OkVal"
            THEN ResOfText(response.text)
            ELSE ResErr("Invalid response", <<>>)

\* --------------------------------------------------------------- transport
\* SocketTcp::send / SocketUnix::send: Ok(n) as [ok |-> TRUE, n |-> n], Err as
\* [ok |-> FALSE, err |-> kind of the io::Error]. outcome is what the stream's
\* write does: it takes n bytes, or fails with the named error.
NotConnected(kind) ==
    [ok |-> FALSE, n |-> 0,
     err |-> IF kind = "tcp" THEN "NotConnected: No connection"
                             ELSE "NotConnected: No connection attached"]

\* A send that writes without looking at write_stream first.
send_unchecked(kind, ws, data, outcome) ==
    IF outcome.ok THEN [ok |-> TRUE, n |-> outcome.n, err |-> ""]
    ELSE [ok |-> FALSE, n |-> 0, err |-> outcome.err]

\* fn send of SocketTcp and SocketUnix: NotConnected without a write half,
\* else the result of the one write.
send(kind, ws, data, outcome) ==
    IF ws = "None" THEN NotConnected(kind)
    ELSE IF outcome.ok THEN [ok |-> TRUE, n |-> outcome.n, err |-> ""]
    ELSE [ok |-> FALSE, n |-> 0, err |-> outcome.err]

\* What a write of data on the connected stream can do: take all of it, take
\* a prefix (write and try_write make one attempt), or fail.
WriteOutcomes(kind, data, open) ==
    {[ok |-> TRUE, n |-> n, err |-> ""] : n \in {Len(data), Len(data) - 1}}
      \cup (IF kind = "unix" THEN {[ok |-> FALSE, n |-> 0, err |-> "WouldBlock"]} ELSE {})
      \cup (IF open THEN {} ELSE {[ok |-> FALSE, n |-> 0, err |-> "BrokenPipe"]})


\* ------------------------------------------------------------- environment
\* The response lines the peer answers with, and the IRQ lines it emits.
RespLines == {<<"O", "K", "\n">>,
              <<"O", "K", " ", "7", "\n">>,
              <<"F", "A", "I", "L", "\n">>}

IrqLines == {<<"I", "R", "Q", " ", "r", "a", "i", "s", "e", " ", "1", "\n">>,
             <<"I", "R", "Q", " ", "l", "o", "w", "e", "r", " ", "2", "\n">>}

\* The calls the caller makes in the pipeline specification: a raw-Response
\* call, a width read, and a width write.
EngineOps == {Op("clock_step", 0, 0, FALSE, <<>>, <<>>),
              Op("readb", 16, 0, FALSE, <<>>, <<>>),
              Op("writeb", 16, 42, FALSE, <<>>, <<>>)}

NoOp == Op("none", 0, 0, FALSE, <<>>, <<>>)

\* The places where the network may split a line in two deliveries
\* (0: the line arrives whole).
Cuts(line) == {0} \cup {c \in {CutAt} : c < Len(line)}

\* ------------------------------------------------------------------- state
VARIABLES
    kind,          \* the Socket implementation: "tcp" or "unix"
    write_stream,  \* SocketTcp/SocketUnix.write_stream: "None" or "Some"
    parser_alive,  \* the Parser (with its socket and response_queue) is not dropped
    rx_irq_alive,  \* the caller still holds the IRQ receiver
    eng_pc,        \* the engine call in progress: "idle", or "recv" at response_queue.recv()
    cur,           \* the call in progress: [op, full, after_eof]
    results,       \* the calls that returned: [op, sent, full, after_eof, res]
    conn,          \* the peer's connection: "none", "open" or "closed"
    to_peer,       \* bytes written to the connection that the peer has not consumed
    in_flight,     \* bytes the peer wrote that have not arrived yet
    sock_buf,      \* bytes that arrived and the forwarding task has not read
    fwd_pc,        \* Socket::reader: "none", "read", "send", "returned", "panicked",
                   \* "panicked_utf8"
    msg,           \* Socket::reader's msg
    read_errs,     \* read errors reported so far
    n_fwd,         \* messages the forwarding task has put on the raw channel
    raw_q,         \* the channel tx_raw_sock_out -> rx_raw_sock_out
    rd_pc,         \* Reader::read: "recv", "emit", "returned", "panicked"
    raw_data,      \* Reader::read's raw_data (kept until the next recv)
    todo,          \* the non-empty lines of the block not handled yet
    blk_resp,      \* Responses sent for the block in raw_data
    irq_q,         \* the channel tx_irq -> rx_irq
    resp_q,        \* the channel tx_response -> response_queue
    peer_resp,     \* the response lines the peer has sent, in order
    irq_sent,      \* the IRQ events of the lines the peer has sent, in order
    irq_seen,      \* the IRQ events the consumer has received, in order
    fmt,           \* the request text last formatted for inspection: [op, data]
    blk_irq,       \* the IrqEvents sent for the block in raw_data, in order
    app,           \* the last application of a conversion: [f, s, op, resp, irq, res]
    ub,            \* SocketUnix::new: [pc, file, first, remove, second, binds,
                   \* removes, res, calls, races]
    att            \* the connections accepted by attach_connection: [conns, ws, fed]

vars == <<kind, write_stream, parser_alive, rx_irq_alive, eng_pc, cur, results,
          conn, to_peer, in_flight, sock_buf, fwd_pc, msg, read_errs, n_fwd,
          raw_q, rd_pc, raw_data, todo, blk_resp, blk_irq, irq_q, resp_q, peer_resp, irq_sent,
          irq_seen, fmt, app, ub, att>>

engine_vars == <<eng_pc, cur, results>>
peer_vars == <<conn, to_peer, in_flight, peer_resp, irq_sent>>
fwd_vars == <<fwd_pc, msg, read_errs, n_fwd>>
rd_vars == <<rd_pc, raw_data, todo, blk_resp, blk_irq>>

NoFmt == [op |-> NoOp, data |-> <<>>]

\* No conversion applied yet.
NoApp == [f |-> "none", s |-> <<>>, op |-> NoOp, resp |-> NoResp, irq |-> IrqErr,
          res |-> ResErr("", <<>>)]

\* SocketUnix::new not called.
NoBind == [pc |-> "none", file |-> "absent", first |-> "none", remove |-> "none",
           second |-> "none", binds |-> 0, removes |-> 0, res |-> "none",
           calls |-> 0, races |-> 0]

\* No connection accepted: no forwarding task, no write half, nothing fed.
NoAtt == [conns |-> <<>>, ws |-> 0, fed |-> <<>>]

\* Parser::new has returned: three empty channels, the Reader task spawned
\* and waiting, no connection attached.
Init ==
    /\ kind \in {"tcp", "unix"}
    /\ write_stream = "None"
    /\ parser_alive = TRUE
    /\ rx_irq_alive = TRUE
    /\ eng_pc = "idle"
    /\ cur = [op |-> NoOp, full |-> FALSE, after_eof |-> FALSE, after_fail |-> FALSE]
    /\ results = <<>>
    /\ conn = "none"
    /\ to_peer = <<>>
    /\ in_flight = <<>>
    /\ sock_buf = <<>>
    /\ fwd_pc = "none"
    /\ msg = <<>>
    /\ read_errs = 0
    /\ n_fwd = 0
    /\ raw_q = <<>>
    /\ rd_pc = "recv"
    /\ raw_data = <<>>
    /\ todo = <<>>
    /\ blk_resp = 0
    /\ blk_irq = <<>>
    /\ irq_q = <<>>
    /\ resp_q = <<>>
    /\ peer_resp = <<>>
    /\ irq_sent = <<>>
    /\ irq_seen = <<>>
    /\ fmt = NoFmt
    /\ app = NoApp
    /\ ub = NoBind
    /\ att = NoAtt

\* The environment's events so far.
Events ==
    Len(results) + (IF eng_pc = "recv" THEN 1 ELSE 0) + Len(irq_sent) + read_errs
      + (IF parser_alive THEN 0 ELSE 1) + (IF conn = "closed" THEN 1 ELSE 0)
      + (IF fwd_pc = "panicked_utf8" THEN 1 ELSE 0)

\* ------------------------------------------------------------------ engine
\* Parser::attach_connection -> Socket::attach_connection: accept() returns
\* when the peer connects; the write half is stored and the forwarding task
\* spawned on the read half. (The Err(e) branch changes nothing.)
AttachConnection ==
    /\ parser_alive /\ eng_pc = "idle"
    /\ conn = "none"
    /\ conn' = "open"
    /\ write_stream' = "Some"
    /\ fwd_pc' = "read"
    /\ UNCHANGED <<kind, parser_alive, rx_irq_alive, engine_vars, to_peer, in_flight,
                   sock_buf, msg, read_errs, n_fwd, raw_q, rd_vars, irq_q, resp_q,
                   peer_resp, irq_sent, irq_seen, fmt, app, ub, att>>

\* A background task has failed internally: the forwarding task on a chunk
\* that is not UTF-8, or the Reader task on a send whose receiver is gone.
InternalFailure == fwd_pc = "panicked_utf8" \/ rd_pc = "panicked"

\* The first half of every engine call: format the request and
\* self.socket.send(&data).await?. An Err returns from the call; an Ok(n)
\* goes on to response_queue.recv().
Invoke(op, outcome) ==
    /\ parser_alive /\ eng_pc = "idle"
    /\ Events < MaxEvents
    /\ LET data == Request(op)
           r == send(kind, write_stream, data, outcome)
       IN  IF r.ok
           THEN /\ to_peer' = to_peer \o SubSeq(data, 1, r.n)
                /\ eng_pc' = "recv"
                /\ cur' = [op |-> op, full |-> (r.n = Len(data)),
                           after_eof |-> (fwd_pc = "returned"),
                           after_fail |-> InternalFailure]
                /\ UNCHANGED results
           ELSE /\ results' = Append(results,
                                     [op |-> op, sent |-> FALSE, full |-> FALSE,
                                      after_eof |-> (fwd_pc = "returned"),
                                      after_fail |-> InternalFailure,
                                      res |-> ResErr(r.err, <<>>)])
                /\ UNCHANGED <<to_peer, eng_pc, cur>>
    /\ UNCHANGED <<kind, write_stream, parser_alive, rx_irq_alive, conn, in_flight,
                   sock_buf, fwd_vars, raw_q, rd_vars, irq_q, resp_q, peer_resp,
                   irq_sent, irq_seen, fmt, app, ub, att>>

\* The Reader task has ended, so tx_response is dropped.
ResponseSenderGone == rd_pc \in {"returned", "panicked"}

\* A second half that looks at the head of the Response channel and leaves
\* it there.
EngineRecv_NoTake ==
    /\ eng_pc = "recv"
    /\ \/ /\ resp_q # <<>>
          /\ results' = Append(results,
                               [op |-> cur.op, sent |-> TRUE, full |-> cur.full,
                                after_eof |-> cur.after_eof,
                                after_fail |-> cur.after_fail,
                                res |-> Decode(cur.op, Head(resp_q))])
       \/ /\ resp_q = <<>> /\ ResponseSenderGone
          /\ results' = Append(results,
                               [op |-> cur.op, sent |-> TRUE, full |-> cur.full,
                                after_eof |-> cur.after_eof,
                                after_fail |-> cur.after_fail,
                                res |-> CouldNotReceive])
    /\ eng_pc' = "idle"
    /\ UNCHANGED <<kind, write_stream, parser_alive, rx_irq_alive, cur, peer_vars,
                   sock_buf, fwd_vars, raw_q, rd_vars, irq_q, resp_q, irq_seen, fmt, app, ub, att>>

\* The second half of every engine call: response_queue.recv().await, then
\* ok_or_else / the match on the response.
EngineRecv ==
    /\ eng_pc = "recv"
    /\ \/ /\ resp_q # <<>>
          /\ results' = Append(results,
                               [op |-> cur.op, sent |-> TRUE, full |-> cur.full,
                                after_eof |-> cur.after_eof,
                                after_fail |-> cur.after_fail,
                                res |-> Decode(cur.op, Head(resp_q))])
          /\ resp_q' = Tail(resp_q)
       \/ /\ resp_q = <<>> /\ ResponseSenderGone
          /\ results' = Append(results,
                               [op |-> cur.op, sent |-> TRUE, full |-> cur.full,
                                after_eof |-> cur.after_eof,
                                after_fail |-> cur.after_fail,
                                res |-> CouldNotReceive])
          /\ UNCHANGED resp_q
    /\ eng_pc' = "idle"
    /\ UNCHANGED <<kind, write_stream, parser_alive, rx_irq_alive, cur, peer_vars,
                   sock_buf, fwd_vars, raw_q, rd_vars, irq_q, irq_seen, fmt, app, ub, att>>

\* The caller drops the Parser between two calls: the socket (with its
\* out_handler sender and write half) and response_queue go with it.
DropParser ==
    /\ parser_alive /\ eng_pc = "idle"
    /\ Events < MaxEvents
    /\ parser_alive' = FALSE
    /\ resp_q' = <<>>
    /\ UNCHANGED <<kind, write_stream, rx_irq_alive, engine_vars, peer_vars, sock_buf,
                   fwd_vars, raw_q, rd_vars, irq_q, irq_seen, fmt, app, ub, att>>

\* ---------------------------------------------------------- IRQ consumer
\* The caller's task: while let Some(irq) = irq_rx.recv().await
IrqRecv ==
    /\ rx_irq_alive /\ irq_q # <<>>
    /\ irq_seen' = Append(irq_seen, Head(irq_q))
    /\ irq_q' = Tail(irq_q)
    /\ UNCHANGED <<kind, write_stream, parser_alive, rx_irq_alive, engine_vars,
                   peer_vars, sock_buf, fwd_vars, raw_q, rd_vars, resp_q, fmt, app, ub, att>>

\* The caller discards the IRQ receiver Parser::new returned
\* (let (parser, _) = Parser::new(url)).
DropIrqRx ==
    /\ rx_irq_alive
    /\ conn = "none" /\ results = <<>>
    /\ rx_irq_alive' = FALSE
    /\ irq_q' = <<>>
    /\ UNCHANGED <<kind, write_stream, parser_alive, engine_vars, peer_vars, sock_buf,
                   fwd_vars, raw_q, rd_vars, resp_q, irq_seen, fmt, app, ub, att>>


\* -------------------------------------------------------------------- peer
\* The peer writes a line: the part before the cut arrives at once, the
\* rest stays on the network until Deliver.
Arrived(line, cut) == IF cut = 0 THEN line ELSE SubSeq(line, 1, cut)
Pending(line, cut) == IF cut = 0 THEN <<>> ELSE SubSeq(line, cut + 1, Len(line))

\* The text after the first newline of s.
AfterFirstLine(s) ==
    LET i == CHOOSE j \in 1..Len(s) : s[j] = NL /\ \A k \in 1..(j - 1) : s[k] # NL
    IN  SubSeq(s, i + 1, Len(s))

\* The peer consumes one complete request line and answers it with one
\* response line.
PeerAnswer(line, cut) ==
    /\ conn = "open" /\ in_flight = <<>>
    /\ Contains(to_peer, NL)
    /\ to_peer' = AfterFirstLine(to_peer)
    /\ sock_buf' = sock_buf \o Arrived(line, cut)
    /\ in_flight' = Pending(line, cut)
    /\ peer_resp' = Append(peer_resp, line)
    /\ UNCHANGED <<kind, write_stream, parser_alive, rx_irq_alive, engine_vars, conn,
                   fwd_vars, raw_q, rd_vars, irq_q, resp_q, irq_sent, irq_seen, fmt, app, ub, att>>

\* The peer emits an IRQ line on its own.
PeerIrq(line, cut) ==
    /\ conn = "open" /\ in_flight = <<>>
    /\ Events < MaxEvents
    /\ sock_buf' = sock_buf \o Arrived(line, cut)
    /\ in_flight' = Pending(line, cut)
    /\ irq_sent' = Append(irq_sent, [line |-> IrqTryFrom(line).line,
                                      state |-> IrqTryFrom(line).state])
    /\ UNCHANGED <<kind, write_stream, parser_alive, rx_irq_alive, engine_vars, conn,
                   to_peer, fwd_vars, raw_q, rd_vars, irq_q, resp_q, peer_resp,
                   irq_seen, fmt, app, ub, att>>

\* The rest of a split line arrives.
Deliver ==
    /\ conn = "open" /\ in_flight # <<>>
    /\ sock_buf' = sock_buf \o in_flight
    /\ in_flight' = <<>>
    /\ UNCHANGED <<kind, write_stream, parser_alive, rx_irq_alive, engine_vars, conn,
                   to_peer, fwd_vars, raw_q, rd_vars, irq_q, resp_q, peer_resp,
                   irq_sent, irq_seen, fmt, app, ub, att>>

\* The peer closes the connection; what it had not put on the network is lost.
PeerClose ==
    /\ conn = "open"
    /\ Events < MaxEvents
    /\ conn' = "closed"
    /\ in_flight' = <<>>
    /\ UNCHANGED <<kind, write_stream, parser_alive, rx_irq_alive, engine_vars,
                   to_peer, sock_buf, fwd_vars, raw_q, rd_vars, irq_q, resp_q,
                   peer_resp, irq_sent, irq_seen, fmt, app, ub, att>>

\* ------------------------------------------------- Socket::reader (forwarder)
\* str::from_utf8(&buf).unwrap().to_string(): the whole buffer, the n bytes
\* read followed by the zeros buf.fill(0) left.
BufText(chunk) == chunk \o Repeat(NUL, BufSize - Len(chunk))

\* A read loop that forwards after every read, whatever the text holds.
AfterPush_Always(m) == "send"

\* Where the forwarding task goes after msg.push_str(&msg_part): the
\* condition of `while !msg.contains('\n')`.
AfterPush(m) == IF Contains(m, NL) THEN "send" ELSE "read"

\* owned_read_half.read(&mut buf).await returns Ok(n), n > 0, or Ok(0).
FwdRead ==
    /\ fwd_pc = "read"
    /\ \/ /\ sock_buf # <<>>
          /\ LET n == IF Len(sock_buf) < BufSize THEN Len(sock_buf) ELSE BufSize
                 m == msg \o BufText(SubSeq(sock_buf, 1, n))
             IN  /\ msg' = m
                 /\ sock_buf' = SubSeq(sock_buf, n + 1, Len(sock_buf))
                 /\ fwd_pc' = AfterPush(m)
       \/ /\ sock_buf = <<>> /\ conn = "closed"
          /\ fwd_pc' = "returned"
          /\ UNCHANGED <<msg, sock_buf>>
    /\ UNCHANGED <<kind, write_stream, parser_alive, rx_irq_alive, engine_vars,
                   peer_vars, read_errs, n_fwd, raw_q, rd_vars, irq_q, resp_q, irq_seen,
                   fmt, app, ub, att>>

\* Where the forwarding task goes on Err(e) => { println!(..); break; }: the
\* break leaves the inner while, and the statement after it is the send.
AfterReadErr == "send"

\* owned_read_half.read(&mut buf).await returns Err(e).
FwdReadErr ==
    /\ fwd_pc = "read"
    /\ Events < MaxEvents
    /\ read_errs' = read_errs + 1
    /\ fwd_pc' = AfterReadErr
    /\ UNCHANGED <<kind, write_stream, parser_alive, rx_irq_alive, engine_vars,
                   peer_vars, sock_buf, msg, n_fwd, raw_q, rd_vars, irq_q, resp_q,
                   irq_seen, fmt, app, ub, att>>

\* owned_read_half.read(&mut buf).await returns Ok(n) with bytes that are not
\* UTF-8: str::from_utf8(&buf).unwrap() panics and the task ends.
FwdBadUtf8 ==
    /\ fwd_pc = "read" /\ conn = "open"
    /\ Events < MaxEvents
    /\ fwd_pc' = "panicked_utf8"
    /\ UNCHANGED <<kind, write_stream, parser_alive, rx_irq_alive, engine_vars,
                   peer_vars, sock_buf, msg, read_errs, n_fwd, raw_q, rd_vars, irq_q,
                   resp_q, irq_seen, fmt, app, ub, att>>

\* The Reader task has ended, so rx_raw_sock_out is dropped.
RawReceiverGone == rd_pc \in {"returned", "panicked"}

\* A send that discards the message when the channel is full instead of
\* waiting for room.
FwdSend_DropWhenFull ==
    /\ fwd_pc = "send"
    /\ \/ /\ RawReceiverGone
          /\ fwd_pc' = "panicked"
          /\ UNCHANGED <<msg, raw_q, n_fwd>>
       \/ /\ ~RawReceiverGone
          /\ raw_q' = IF Len(raw_q) < ChannelCap THEN Append(raw_q, msg) ELSE raw_q
          /\ n_fwd' = n_fwd + 1
          /\ msg' = <<>>
          /\ fwd_pc' = "read"
    /\ UNCHANGED <<kind, write_stream, parser_alive, rx_irq_alive, engine_vars,
                   peer_vars, sock_buf, read_errs, rd_vars, irq_q, resp_q, irq_seen,
                   fmt, app, ub, att>>

\* out_handler.send(msg).await.unwrap(), then the next turn of the loop.
FwdSend ==
    /\ fwd_pc = "send"
    /\ \/ /\ RawReceiverGone
          /\ fwd_pc' = "panicked"
          /\ UNCHANGED <<msg, raw_q, n_fwd>>
       \/ /\ ~RawReceiverGone
          /\ Len(raw_q) < ChannelCap
          /\ raw_q' = Append(raw_q, msg)
          /\ n_fwd' = n_fwd + 1
          /\ msg' = <<>>
          /\ fwd_pc' = "read"
    /\ UNCHANGED <<kind, write_stream, parser_alive, rx_irq_alive, engine_vars,
                   peer_vars, sock_buf, read_errs, rd_vars, irq_q, resp_q, irq_seen,
                   fmt, app, ub, att>>

\* ------------------------------------------------ Reader::read (demultiplexer)
\* Every sender of the raw channel is dropped: the transport's out_handler
\* (dropped with the Parser) and the forwarding task's clone.
RawSendersGone ==
    ~parser_alive /\ fwd_pc \in {"none", "returned", "panicked", "panicked_utf8"}

string_data == trim_matches(raw_data, NUL)

\* A filter that keeps every line, the empty ones too.
NonEmpty_KeepAll(l) == TRUE

NonEmpty(l) == l # <<>>

\* while let Some(raw_data) = self.rx_socket.recv().await: the block is
\* trimmed and split in lines; empty lines are skipped.
RdRecv ==
    /\ rd_pc = "recv"
    /\ \/ /\ raw_q # <<>>
          /\ raw_data' = Head(raw_q)
          /\ raw_q' = Tail(raw_q)
          /\ todo' = SelectSeq(lines(trim_matches(Head(raw_q), NUL)), NonEmpty)
          /\ blk_resp' = 0
          /\ blk_irq' = <<>>
          /\ rd_pc' = IF todo' = <<>> THEN "recv" ELSE "emit"
       \/ /\ raw_q = <<>> /\ RawSendersGone
          /\ rd_pc' = "returned"
          /\ UNCHANGED <<raw_q, raw_data, todo, blk_resp, blk_irq>>
    /\ UNCHANGED <<kind, write_stream, parser_alive, rx_irq_alive, engine_vars,
                   peer_vars, sock_buf, fwd_vars, irq_q, resp_q, irq_seen, fmt, app, ub, att>>

\* A Response made of the line alone.
ResponseFor_Line(line) == ResponseFrom(line)

\* The Response sent for a line that is no IRQ line.
ResponseFor(line) == ResponseFrom(string_data)

\* A loop body that discards the IrqEvent when the IRQ channel is full
\* instead of waiting for room.
RdEmit_DropIrqWhenFull ==
    /\ rd_pc = "emit"
    /\ LET line == Head(todo)
           irq == IrqTryFrom(line)
           next == IF Tail(todo) = <<>> THEN "recv" ELSE "emit"
       IN  IF irq.ok
           THEN \/ /\ ~rx_irq_alive
                   /\ rd_pc' = "panicked"
                   /\ UNCHANGED <<irq_q, resp_q, todo, blk_resp, blk_irq>>
                \/ /\ rx_irq_alive
                   /\ irq_q' = IF Len(irq_q) < ChannelCap
                                THEN Append(irq_q, [line |-> irq.line, state |-> irq.state])
                                ELSE irq_q
                   /\ blk_irq' = Append(blk_irq, [line |-> irq.line, state |-> irq.state])
                   /\ todo' = Tail(todo)
                   /\ rd_pc' = next
                   /\ UNCHANGED <<resp_q, blk_resp>>
           ELSE \/ /\ ~parser_alive
                   /\ rd_pc' = "panicked"
                   /\ UNCHANGED <<irq_q, resp_q, todo, blk_resp, blk_irq>>
                \/ /\ parser_alive
                   /\ Len(resp_q) < ChannelCap
                   /\ resp_q' = Append(resp_q, ResponseFor(line))
                   /\ blk_resp' = blk_resp + 1
                   /\ todo' = Tail(todo)
                   /\ rd_pc' = next
                   /\ UNCHANGED <<irq_q, blk_irq>>
    /\ UNCHANGED <<kind, write_stream, parser_alive, rx_irq_alive, engine_vars,
                   peer_vars, sock_buf, fwd_vars, raw_q, raw_data, irq_seen, fmt, app,
                   ub, att>>

\* The body of `for line in lines` for one non-empty line: an IrqEvent to
\* tx_irq or a Response to tx_response; a failed send ends the task through
\* `?` and the unwrap in the spawned closure.
RdEmit ==
    /\ rd_pc = "emit"
    /\ LET line == Head(todo)
           irq == IrqTryFrom(line)
           next == IF Tail(todo) = <<>> THEN "recv" ELSE "emit"
       IN  IF irq.ok
           THEN \/ /\ ~rx_irq_alive
                   /\ rd_pc' = "panicked"
                   /\ UNCHANGED <<irq_q, resp_q, todo, blk_resp, blk_irq>>
                \/ /\ rx_irq_alive
                   /\ Len(irq_q) < ChannelCap
                   /\ irq_q' = Append(irq_q, [line |-> irq.line, state |-> irq.state])
                   /\ blk_irq' = Append(blk_irq, [line |-> irq.line, state |-> irq.state])
                   /\ todo' = Tail(todo)
                   /\ rd_pc' = next
                   /\ UNCHANGED <<resp_q, blk_resp>>
           ELSE \/ /\ ~parser_alive
                   /\ rd_pc' = "panicked"
                   /\ UNCHANGED <<irq_q, resp_q, todo, blk_resp, blk_irq>>
                \/ /\ parser_alive
                   /\ Len(resp_q) < ChannelCap
                   /\ resp_q' = Append(resp_q, ResponseFor(line))
                   /\ blk_resp' = blk_resp + 1
                   /\ todo' = Tail(todo)
                   /\ rd_pc' = next
                   /\ UNCHANGED <<irq_q, blk_irq>>
    /\ UNCHANGED <<kind, write_stream, parser_alive, rx_irq_alive, engine_vars,
                   peer_vars, sock_buf, fwd_vars, raw_q, raw_data, irq_seen, fmt, app, ub, att>>

\* ----------------------------------------------------------- specification
Next ==
    \/ AttachConnection
    \/ \E op \in EngineOps :
         \E outcome \in WriteOutcomes(kind, Request(op), conn = "open") :
           Invoke(op, outcome)
    \/ EngineRecv
    \/ DropParser
    \/ IrqRecv
    \/ DropIrqRx
    \/ \E line \in RespLines : \E cut \in Cuts(line) : PeerAnswer(line, cut)
    \/ \E line \in IrqLines : \E cut \in Cuts(line) : PeerIrq(line, cut)
    \/ Deliver
    \/ PeerClose
    \/ FwdRead
    \/ FwdReadErr
    \/ FwdBadUtf8
    \/ FwdSend
    \/ RdRecv
    \/ RdEmit

Spec == Init /\ [][Next]_vars


\* ------------------------------------------------ request formatting alone
\* The arguments the formatting specification draws from.
Addrs == {0, 16, 255, 4096}
Vals == {0, 42, 255}
Counts == {0, 10, 1000}
Levels == {-1, 0, 1}
Paths == {<<"/", "m">>}
IrqNameTexts == {<<"i", "n">>}
DataTexts == {<<>>, <<"a">>, <<"0", "x", "f", "f">>, <<"a", "b", "c">>}

AllOps ==
    {Op("clock_step", n, 0, o, <<>>, <<>>) : n \in Counts, o \in BOOLEAN}
      \cup {Op("clock_set", n, 0, FALSE, <<>>, <<>>) : n \in Counts}
      \cup {Op(v, 0, 0, FALSE, q, <<>>) :
              v \in {"irq_intercept_in", "irq_intercept_out"}, q \in Paths}
      \cup {Op("set_irq_in", n, l, FALSE, q, i) :
              n \in Counts, l \in Levels, q \in Paths, i \in IrqNameTexts}
      \cup {Op(v, a, 0, FALSE, <<>>, <<>>) : v \in InNames \cup ReadNames, a \in Addrs}
      \cup {Op(v, a, x, FALSE, <<>>, <<>>) :
              v \in OutNames \cup WriteNames, a \in Addrs, x \in Vals}
      \cup {Op("read", a, n, FALSE, <<>>, <<>>) : a \in Addrs, n \in Counts}
      \cup {Op("write", a, n, o, d, <<>>) :
              a \in Addrs, n \in Counts, o \in BOOLEAN, d \in DataTexts}
      \cup {Op("b64write", a, 0, FALSE, d, <<>>) : a \in Addrs, d \in DataTexts}

\* let data = format!(..) of an engine call, looked at on its own.
Format(op) ==
    /\ fmt' = [op |-> op, data |-> Request(op)]
    /\ UNCHANGED <<kind, write_stream, parser_alive, rx_irq_alive, engine_vars,
                   peer_vars, sock_buf, fwd_vars, raw_q, rd_vars, irq_q, resp_q,
                   irq_seen, app, ub, att>>

FmtNext == \E op \in AllOps : Format(op)

SpecFmt == Init /\ [][FmtNext]_vars

\* ------------------------------------------------ the demultiplexer on blocks
\* Blocks the forwarding task hands over in one run.
MaxBlocks == 2

\* The lines of the blocks the demultiplexer is run on: well-formed IRQ lines
\* before one other line, IRQ lines alone, lines that begin with IRQ and fail
\* the IRQ grammar, blank lines, and lines after a response line.
DemuxBlockLines ==
    {<<<<"O", "K", " ", "7">>>>,
     <<<<"I", "R", "Q", " ", "r", "a", "i", "s", "e", " ", "1">>, <<"O", "K">>>>,
     <<<<"I", "R", "Q", " ", "r", "a", "i", "s", "e", " ", "1">>, <<"I", "R", "Q", " ",
     "l", "o", "w", "e", "r", " ", "2">>, <<"O", "K", " ", "7">>>>,
     <<<<"I", "R", "Q", " ", "l", "o", "w", "e", "r", " ", "2">>, <<"I", "R", "Q", " ",
     "r", "a", "i", "s", "e", " ", "1">>, <<"I", "R", "Q", " ", "l", "o", "w", "e", "r",
     " ", "2">>, <<"F", "A", "I", "L">>>>,
     <<<<"I", "R", "Q", " ", "r", "a", "i", "s", "e", " ", "1">>>>,
     <<<<"I", "R", "Q", " ", "r", "a", "i", "s", "e", " ", "1">>, <<"I", "R", "Q", " ",
     "l", "o", "w", "e", "r", " ", "2">>>>,
     <<<<"I", "R", "Q", " ", "r", "a", "i", "s", "e">>>>,
     <<<<"I", "R", "Q", " ", "r", "a", "i", "s", "e", " ", "1", " ", "x">>, <<"I", "R",
     "Q", " ", "r", "a", "i", "s", "e", " ", "1">>>>,
     <<<<"I", "R", "Q", " ", "r", "a", "i", "s", "e", " ", "-", "1">>, <<"O", "K">>>>,
     <<<<"O", "K">>, <<>>, <<"I", "R", "Q", " ", "r", "a", "i", "s", "e", " ", "1">>>>,
     <<<<>>, <<"O", "K", " ", "7">>, <<"O", "K">>>>,
     <<<<"O", "K">>, <<" ">>, <<"I", "R", "Q", " ", "l", "o", "w", "e", "r", " ", "2">>>>}

RECURSIVE JoinLines(_)
\* The lines, each ended by its newline.
JoinLines(ls) == IF ls = <<>> THEN <<>> ELSE Head(ls) \o <<NL>> \o JoinLines(Tail(ls))

\* The message the forwarding task makes of the lines when they arrive in one
\* read per BufSize characters: the text and the zeros of the last buffer.
BlockOf(ls) ==
    LET t == JoinLines(ls)
    IN  t \o Repeat(NUL, (BufSize - (Len(t) % BufSize)) % BufSize)

\* out_handler.send(msg).await of the forwarding task, with the block it has
\* accumulated.
FeedBlock(b) ==
    /\ n_fwd < MaxBlocks
    /\ ~RawReceiverGone
    /\ Len(raw_q) < ChannelCap
    /\ raw_q' = Append(raw_q, b)
    /\ n_fwd' = n_fwd + 1
    /\ UNCHANGED <<kind, write_stream, parser_alive, rx_irq_alive, engine_vars,
                   peer_vars, sock_buf, fwd_pc, msg, read_errs, rd_vars, irq_q, resp_q,
                   irq_seen, fmt, app, ub, att>>

DemuxNext ==
    \/ \E ls \in DemuxBlockLines : FeedBlock(BlockOf(ls))
    \/ RdRecv
    \/ RdEmit
    \/ IrqRecv
    \/ DropIrqRx

SpecDemux == Init /\ [][DemuxNext]_vars

\* ------------------------------------------------------ conversions alone
\* The texts Response::from and Irq::try_from are applied to.
ParseTexts ==
    {<<>>,
     <<" ">>,
     <<"O", "K">>,
     <<"O", "K", " ", "5">>,
     <<"O", "K", " ", " ", "5">>,
     <<" ", "O", "K", " ", "5", " ">>,
     <<"O", "K", " ", "a", " ", "b">>,
     <<"O", "K", "\t", "a", "\n", "b">>,
     <<"o", "k">>,
     <<"O", "K", "A", "Y">>,
     <<"E", "R", "R", " ", "e", "r", "r", "o", "r">>,
     <<"a", "n", "y", "t", "h", "i", "n", "g", " ", "e", "l", "s", "e">>,
     <<"O", "K", "\n">>,
     <<"x", " ", "O", "K">>,
     <<"O", "K", " ", "v", "a", "l">>,
     <<"I", "R", "Q", " ", "r", "a", "i", "s", "e", " ", "1">>,
     <<"I", "R", "Q", " ", "l", "o", "w", "e", "r", " ", "2">>,
     <<"I", "R", "Q", " ", "r", "a", "i", "s", "e", " ", "-", "1">>,
     <<"I", "R", "Q", " ", "r", "a", "i", "s", "e", " ", "1", " ", "e", "x", "t", "r",
     "a">>,
     <<"n", "o", "t", "-", "i", "r", "q">>,
     <<"i", "n", "v", "a", "l", "i", "d">>,
     <<"I", "R", "Q", " ", "i", "n", "v", "a", "l", "i", "d">>,
     <<"I", "R", "Q">>,
     <<"I", "R", "Q", " ", "r", "a", "i", "s", "e">>,
     <<"i", "r", "q", " ", "r", "a", "i", "s", "e", " ", "1">>,
     <<"I", "R", "Q", " ", "R", "a", "i", "s", "e", " ", "1">>,
     <<"I", "R", "Q", " ", "r", "a", "i", "s", "e", " ", "+", "3">>,
     <<"I", "R", "Q", " ", " ", "l", "o", "w", "e", "r", "\t", "0", "7">>,
     <<"I", "R", "Q", " ", "r", "a", "i", "s", "e", " ", "1", ".", "5">>,
     <<"I", "R", "Q", " ", "r", "a", "i", "s", "e", " ", "0", "x", "1">>,
     <<" ", "I", "R", "Q", " ", "r", "a", "i", "s", "e", " ", "1", "2", " ">>,
     <<"I", "R", "Q", " ", "l", "o", "w", "e", "r", " ", "0">>,
     <<"I", "R", "Q", " ", "r", "a", "i", "s", "e", " ", "x">>,
     <<"O", "K", " ", "I", "R", "Q", " ", "r", "a", "i", "s", "e", " ", "1">>,
     <<"I", "R", "Q", " ", "r", "a", "i", "s", "e", " ", "1", "\n", "O", "K">>}

\* The response lines whose Response the operations decode.
DecodeTexts ==
    {<<"O", "K">>,
     <<"F", "A", "I", "L">>,
     <<"E", "R", "R", " ", "x">>,
     <<"O", "K", " ", "0", "x", "2", "a">>,
     <<"O", "K", " ", "2", "a">>,
     <<"O", "K", " ", "0", "x", "2", "A">>,
     <<"O", "K", " ", "0", "x", "f", "f">>,
     <<"O", "K", " ", "f", "f">>,
     <<"O", "K", " ", "0", "x", "1", "0", "0">>,
     <<"O", "K", " ", "0", "x", "f", "f", "f", "f">>,
     <<"O", "K", " ", "0", "x", "1", "0", "0", "0", "0">>,
     <<"O", "K", " ", "0", "x", "0">>,
     <<"O", "K", " ", "4", "2">>,
     <<"O", "K", " ", "0", "x", "0", "x", "2", "a">>,
     <<"O", "K", " ", "z", "z">>,
     <<"O", "K", " ", "0", "x">>,
     <<"O", "K", " ", "-", "1">>,
     <<"O", "K", " ", "1", "0", "0", "0">>,
     <<"O", "K", " ", "1", "2", " ", "3", "4">>,
     <<"O", "K", " ", "0", "X", "2", "a">>,
     <<"O", "K", " ", "0", "x", "7", "f", "f", "f", "f", "f", "f", "f">>,
     <<"O", "K", " ", "+", "5">>,
     <<"O", "K", " ", "a", "b", "c">>}

AllNames ==
    {"clock_step", "clock_set", "irq_intercept_in", "irq_intercept_out", "set_irq_in",
     "read", "write", "b64write"} \cup InNames \cup OutNames \cup WriteNames \cup ReadNames

\* Response::from(s)
ApplyResponseFrom(s) ==
    /\ app' = [NoApp EXCEPT !.f = "Response::from", !.s = s, !.resp = ResponseFrom(s)]
    /\ UNCHANGED <<kind, write_stream, parser_alive, rx_irq_alive, engine_vars,
                   peer_vars, sock_buf, fwd_vars, raw_q, rd_vars, irq_q, resp_q,
                   irq_seen, fmt, ub, att>>

\* Irq::try_from(s)
ApplyIrqTryFrom(s) ==
    /\ app' = [NoApp EXCEPT !.f = "Irq::try_from", !.s = s, !.irq = IrqTryFrom(s)]
    /\ UNCHANGED <<kind, write_stream, parser_alive, rx_irq_alive, engine_vars,
                   peer_vars, sock_buf, fwd_vars, raw_q, rd_vars, irq_q, resp_q,
                   irq_seen, fmt, ub, att>>

\* The match on the response of the operation `name`, for the Response of the
\* line s.
ApplyDecode(name, s) ==
    /\ app' = [NoApp EXCEPT !.f = "decode", !.s = s,
                            !.op = Op(name, 0, 0, FALSE, <<>>, <<>>),
                            !.resp = ResponseFrom(s),
                            !.res = Decode(Op(name, 0, 0, FALSE, <<>>, <<>>), ResponseFrom(s))]
    /\ UNCHANGED <<kind, write_stream, parser_alive, rx_irq_alive, engine_vars,
                   peer_vars, sock_buf, fwd_vars, raw_q, rd_vars, irq_q, resp_q,
                   irq_seen, fmt, ub, att>>

PureNext ==
    \/ \E s \in ParseTexts : ApplyResponseFrom(s)
    \/ \E s \in ParseTexts : ApplyIrqTryFrom(s)
    \/ \E name \in AllNames : \E s \in DecodeTexts : ApplyDecode(name, s)

SpecPure == Init /\ [][PureNext]_vars

\* ------------------------------------------------------------------ claims
\* A step of the pipeline or of the peer's answering: what can still happen
\* without a new call, a new IRQ line or a fault.
PipelineStep ==
    \/ EngineRecv
    \/ IrqRecv
    \/ \E line \in RespLines : \E cut \in Cuts(line) : PeerAnswer(line, cut)
    \/ Deliver
    \/ FwdRead
    \/ FwdSend
    \/ RdRecv
    \/ RdEmit

\* The results of the calls whose send succeeded.
WasSent(r) == r.sent
SentResults == SelectSeq(results, WasSent)

IsPrefix(a, b) == Len(a) <= Len(b) /\ SubSeq(b, 1, Len(a)) = a

\* Nothing is on its way between the peer and the two output channels.
Drained ==
    /\ in_flight = <<>> /\ sock_buf = <<>>
    /\ fwd_pc = "read" /\ msg = <<>>
    /\ raw_q = <<>> /\ rd_pc = "recv"
    /\ irq_q = <<>>

\* C1: once the forwarding task has seen the zero-length read, a call invoked
\* afterwards on the live engine does not wait forever (while it waits,
\* something that leads to its return can still happen), and what it returns
\* after a successful send is the channel-closed error.
C1_Claim ==
    /\ (eng_pc = "recv" /\ cur.after_eof /\ parser_alive) => ENABLED PipelineStep
    /\ \A k \in 1..Len(results) :
         (results[k].after_eof /\ results[k].sent) => results[k].res = CouldNotReceive

\* C2: with a peer that answers every request line with one response line and
\* emits IRQ lines in between, the k-th call whose request went out returns
\* the decoding of the k-th response line the peer sent.
C2_Claim ==
    (read_errs = 0 /\ rx_irq_alive /\ \A k \in 1..Len(results) : results[k].sent => results[k].full)
      => \A k \in 1..Len(SentResults) :
           /\ k <= Len(peer_resp)
           /\ SentResults[k].res = Decode(SentResults[k].op, ResponseFrom(peer_resp[k]))

\* C3: the IRQ events the consumer has received are the events of the IRQ
\* lines the peer sent, in order: a prefix of them at any time, and all of
\* them once nothing is on its way any more.
C3_Claim ==
    (read_errs = 0 /\ rx_irq_alive /\ parser_alive /\ conn = "open")
      => /\ IsPrefix(irq_seen, irq_sent)
         /\ Drained => irq_seen = irq_sent

\* A call returns in this step; LastResult is what it returned.
Returns == Len(results') = Len(results) + 1
LastResult == results'[Len(results')]

\* C4 (as claimed): a call whose send succeeded removes exactly one item from
\* the Response channel before it returns, and a call whose send failed
\* returns the error and removes none.
C4_Claim ==
    [][Returns => IF LastResult.sent
                  THEN Len(resp_q') = Len(resp_q) - 1
                  ELSE resp_q' = resp_q /\ LastResult.res.tag = "Err"]_vars

\* C4 (amended): a call whose send succeeded either removes exactly one item,
\* the head of the Response channel, or finds the channel closed and empty
\* and returns the channel-closed error having removed nothing; a call whose
\* send failed returns the error and removes none.
C4_Amended ==
    [][Returns => IF LastResult.sent
                  THEN IF LastResult.res = CouldNotReceive
                       THEN resp_q = <<>> /\ resp_q' = <<>> /\ ResponseSenderGone
                       ELSE resp_q # <<>> /\ resp_q' = Tail(resp_q)
                  ELSE resp_q' = resp_q /\ LastResult.res.tag = "Err"]_vars

\* A call whose send succeeded has returned the channel-closed error while
\* the engine is alive.
C4_Witness ==
    /\ parser_alive
    /\ \E k \in 1..Len(results) : results[k].sent /\ results[k].res = CouldNotReceive

\* The shapes of the request grammar.
LowerHex == {Digits[i] : i \in 1..16}
DecDigits == {Digits[i] : i \in 1..10}
IsHexLit(t) ==
    Len(t) >= 3 /\ t[1] = "0" /\ t[2] = "x" /\ \A i \in 3..Len(t) : t[i] \in LowerHex
IsDecLit(t) ==
    LET u == IF t # <<>> /\ t[1] = "-" THEN Tail(t) ELSE t
    IN  u # <<>> /\ \A i \in 1..Len(u) : u[i] \in DecDigits
EndsWithOneNewline(d) ==
    d # <<>> /\ d[Len(d)] = NL /\ \A i \in 1..(Len(d) - 1) : d[i] # NL

\* The argument shapes of each operation: "x" a hex literal, "d" a decimal
\* numeral, "t" any text.
ArgShapes(op) ==
    CASE op.name = "clock_step" -> IF op.opt THEN <<"d">> ELSE <<>>
      [] op.name = "clock_set" -> <<"d">>
      [] op.name \in {"irq_intercept_in", "irq_intercept_out"} -> <<"t">>
      [] op.name = "set_irq_in" -> <<"t", "t", "d", "d">>
      [] op.name \in InNames \cup ReadNames -> <<"x">>
      [] op.name \in OutNames \cup WriteNames -> <<"x", "x">>
      [] op.name = "read" -> <<"x", "d">>
      [] op.name = "write" -> <<"x", "d", "t">>
      [] op.name = "b64write" -> <<"x", "d">>
      [] OTHER -> <<>>

ArgsWellFormed(op, d) ==
    LET toks == split_whitespace(d)
        shapes == ArgShapes(op)
    IN  /\ toks # <<>> /\ toks[1] = Verb(op.name)
        /\ Len(toks) >= Len(shapes) + 1
        /\ \A i \in 1..Len(shapes) :
             CASE shapes[i] = "x" -> IsHexLit(toks[i + 1])
               [] shapes[i] = "d" -> IsDecLit(toks[i + 1])
               [] OTHER -> TRUE

\* C5: the request text of every operation is one line ended by exactly one
\* newline, its addresses and values 0x-prefixed lowercase hex and its counts
\* decimal.
C5_Claim ==
    fmt.op.name # "none" => EndsWithOneNewline(fmt.data) /\ ArgsWellFormed(fmt.op, fmt.data)

\* C6: with the peer connected and answering every complete request line,
\* the IRQ receiver held and no read error, a call whose request was written
\* in full does not wait forever: while it waits, something that leads to its
\* return can still happen.
C6_Claim ==
    (/\ eng_pc = "recv" /\ cur.full
     /\ \A k \in 1..Len(results) : results[k].sent => results[k].full
     /\ conn = "open" /\ rx_irq_alive /\ read_errs = 0)
      => ENABLED PipelineStep

\* C7: while no connection has been attached, no call is past its send, no
\* byte has been written, no Response has been taken, and every call that
\* returned returned the transport's not-connected error.
C7_NotConnected ==
    write_stream = "None"
      => /\ eng_pc = "idle"
         /\ to_peer = <<>>
         /\ resp_q = <<>>
         /\ \A k \in 1..Len(results) :
              /\ ~results[k].sent
              /\ results[k].res = ResErr(NotConnected(kind).err, <<>>)

\* Two calls have returned before any connection was attached.
C7_Witness == write_stream = "None" /\ Len(results) = 2

\* C8: every message on the raw channel, and the one the demultiplexer holds,
\* contains a newline.
C8_Claim ==
    /\ \A i \in 1..Len(raw_q) : Contains(raw_q[i], NL)
    /\ rd_pc = "emit" => Contains(raw_data, NL)

\* C9: once a read error has been reported, the forwarding task reads no
\* more (the socket buffer does not shrink) and forwards no more (no message
\* is added to the raw channel).
C9_Claim ==
    [][read_errs > 0 => (n_fwd' = n_fwd /\ Len(sock_buf') >= Len(sock_buf))]_vars

\* The message is two reads: a first read without newline and a second read
\* that completes one response line.
SplitResponse(m) ==
    /\ Len(m) = 2 * BufSize
    /\ LET p1 == TrimEnd(SubSeq(m, 1, BufSize), NUL)
           p2 == TrimEnd(SubSeq(m, BufSize + 1, 2 * BufSize), NUL)
       IN  /\ p1 # <<>> /\ ~Contains(p1, NL)
           /\ p2 # <<>>
           /\ (p1 \o p2) \in RespLines

\* C10: when no read fails, no message without newline is forwarded and no
\* more messages than the peer sent lines; and for the message made of the
\* two parts of a split response line the demultiplexer sends one Response:
\* never more, and exactly one when it is through with the message.
C10_SplitResponse ==
    /\ read_errs = 0 =>
         /\ \A i \in 1..Len(raw_q) : Contains(raw_q[i], NL)
         /\ raw_data # <<>> => Contains(raw_data, NL)
         /\ n_fwd <= Len(peer_resp) + Len(irq_sent)
    /\ SplitResponse(raw_data) =>
         /\ blk_resp <= 1
         /\ (rd_pc \in {"recv", "returned"}) => blk_resp = 1

\* The one line the peer sent arrived in two reads, was forwarded as one
\* message, and the demultiplexer is through with it.
C10_Witness ==
    /\ SplitResponse(raw_data) /\ rd_pc = "recv" /\ blk_resp = 1
    /\ Len(peer_resp) = 1 /\ irq_sent = <<>> /\ n_fwd = 1 /\ read_errs = 0

\* The IRQ grammar of the protocol: the token IRQ, raise or lower, and a
\* decimal numeral (digits, with or without a leading plus sign).
DigitValue(c) == (CHOOSE d \in 1..16 : Digits[d] = c \/ UpperDigits[d] = c) - 1

RECURSIVE NumeralValue(_, _)
\* The value of a text of digits in the radix.
NumeralValue(t, radix) ==
    IF t = <<>> THEN 0
    ELSE NumeralValue(SubSeq(t, 1, Len(t) - 1), radix) * radix + DigitValue(t[Len(t)])

Unsigned(t) == IF t # <<>> /\ t[1] = "+" THEN Tail(t) ELSE t

IsDecNumeral(t) == Unsigned(t) # <<>> /\ \A i \in 1..Len(Unsigned(t)) : Unsigned(t)[i] \in DecDigits

IrqGrammar(s) ==
    LET t == split_whitespace(s)
    IN  /\ Len(t) = 3
        /\ t[1] = <<"I", "R", "Q">>
        /\ t[2] \in {<<"r", "a", "i", "s", "e">>, <<"l", "o", "w", "e", "r">>}
        /\ IsDecNumeral(t[3])

\* The IrqEvent of a line of the IRQ grammar.
IrqEventOf(s) ==
    LET t == split_whitespace(s)
    IN  [line |-> NumeralValue(Unsigned(t[3]), 10),
         state |-> IF t[2] = <<"r", "a", "i", "s", "e">> THEN "Raise" ELSE "Lower"]

\* The non-blank lines of the block the demultiplexer holds.
BlockLines == SelectSeq(lines(trim_matches(raw_data, NUL)), NonEmpty)

\* The block is IRQ lines followed by one line that is no IRQ line.
IrqsThenOne(ls) ==
    /\ ls # <<>>
    /\ ~IrqGrammar(ls[Len(ls)])
    /\ \A i \in 1..(Len(ls) - 1) : IrqGrammar(ls[i])

LastN(q, n) == SubSeq(q, Len(q) - n + 1, Len(q))

\* C11: when the demultiplexer is through with a block of N well-formed IRQ
\* lines followed by one line that is no IRQ line, it has sent the N IrqEvents
\* of the lines, in line order, to the IRQ channel, and one Response to the
\* Response channel: Response::from of the text of the whole block.
C11_IrqsThenOne ==
    (rd_pc = "recv" /\ raw_data # <<>> /\ IrqsThenOne(BlockLines)) =>
        LET n == Len(BlockLines) - 1
        IN  /\ blk_irq = [i \in 1..n |-> IrqEventOf(BlockLines[i])]
            /\ rx_irq_alive =>
                 /\ Len(irq_seen \o irq_q) >= n
                 /\ LastN(irq_seen \o irq_q, n) = blk_irq
            /\ blk_resp = 1
            /\ resp_q # <<>>
            /\ resp_q[Len(resp_q)] = ResponseFrom(trim_matches(raw_data, NUL))

\* The demultiplexer is through with a block of three IRQ lines and one other
\* line, the IRQ receiver held.
C11_Witness ==
    /\ rd_pc = "recv" /\ raw_data # <<>> /\ IrqsThenOne(BlockLines)
    /\ Len(BlockLines) = 4 /\ Len(blk_irq) = 3 /\ blk_resp = 1 /\ rx_irq_alive

\* The demultiplexer handles the line at the head of todo in this step.
LineHandled == rd_pc = "emit" /\ todo # <<>> /\ todo' = Tail(todo)

FirstTokenIsIrq(l) ==
    split_whitespace(l) # <<>> /\ split_whitespace(l)[1] = <<"I", "R", "Q">>

\* C12 (as claimed): a line whose first token is IRQ causes no Response, and
\* every other non-blank line causes exactly one.
C12_Claim ==
    [][LineHandled => IF FirstTokenIsIrq(Head(todo))
                      THEN resp_q' = resp_q
                      ELSE Len(resp_q') = Len(resp_q) + 1]_vars

\* C12 (amended): a line of the IRQ grammar causes one IrqEvent and no
\* Response; every other non-blank line, a line that begins with IRQ and
\* fails the grammar included, causes exactly one Response and no IrqEvent.
C12_Amended ==
    [][LineHandled => IF IrqGrammar(Head(todo))
                      THEN /\ resp_q' = resp_q
                           /\ irq_q' = Append(irq_q, IrqEventOf(Head(todo)))
                      ELSE /\ Len(resp_q') = Len(resp_q) + 1
                           /\ irq_q' = irq_q]_vars

\* The demultiplexer is through with a block whose only line begins with IRQ
\* and fails the grammar, and has sent a Response for it.
C12_Witness ==
    /\ rd_pc = "recv" /\ Len(BlockLines) = 1
    /\ FirstTokenIsIrq(BlockLines[1]) /\ ~IrqGrammar(BlockLines[1])
    /\ blk_resp = 1 /\ blk_irq = <<>>

RECURSIVE SingleSpaced(_)
\* The tokens with one space between neighbours.
SingleSpaced(toks) ==
    IF toks = <<>> THEN <<>>
    ELSE IF Len(toks) = 1 THEN toks[1]
    ELSE SingleSpaced(SubSeq(toks, 1, Len(toks) - 1)) \o <<" ">> \o toks[Len(toks)]

\* C13: Response::from(s) is Err(s), s unchanged, when the first token of s
\* is not OK (an s without token included); Ok when OK is the only token;
\* otherwise OkVal of the tokens after OK joined with single spaces.
C13_ResponseFrom ==
    app.f = "Response::from" =>
        LET toks == split_whitespace(app.s)
        IN  IF toks = <<>> \/ toks[1] # <<"O", "K">>
            THEN app.resp = [tag |-> "Err", text |-> app.s]
            ELSE IF Len(toks) = 1
                 THEN app.resp = [tag |-> "Ok", text |-> <<>>]
                 ELSE app.resp = [tag |-> "OkVal", text |-> SingleSpaced(Tail(toks))]

\* Response::from was applied to a text with OK and two more tokens, which
\* whitespace other than single spaces separates.
C13_Witness ==
    /\ app.f = "Response::from"
    /\ app.s = <<"O", "K", "\t", "a", "\n", "b">>
    /\ app.resp = [tag |-> "OkVal", text |-> <<"a", " ", "b">>]

\* C14: Irq::try_from(s) succeeds exactly when s is three tokens, IRQ, raise
\* or lower, and a non-negative decimal numeral, and then yields the
\* numeral's value as line and Raise or Lower as state.
C14_IrqTryFrom ==
    app.f = "Irq::try_from" =>
        /\ app.irq.ok <=> IrqGrammar(app.s)
        /\ app.irq.ok =>
             [line |-> app.irq.line, state |-> app.irq.state] = IrqEventOf(app.s)

\* Irq::try_from was applied to a well-formed line and yielded line 12, Raise.
C14_Witness ==
    /\ app.f = "Irq::try_from" /\ app.irq.ok
    /\ app.irq.line = 12 /\ app.irq.state = "Raise"

\* A hex numeral: hex digits, with or without the prefix 0x (a plus sign
\* before the digits is let pass as part of a numeral).
HexDigitSet == {Digits[i] : i \in 1..16} \cup {UpperDigits[i] : i \in 1..16}
HasPrefix0x(t) == Len(t) >= 2 /\ t[1] = "0" /\ t[2] = "x"
HexBody(t) == Unsigned(IF HasPrefix0x(t) THEN SubSeq(t, 3, Len(t)) ELSE t)
IsHexNumeral(t) == HexBody(t) # <<>> /\ \A i \in 1..Len(HexBody(t)) : HexBody(t)[i] \in HexDigitSet

\* The width of the integer an operation returns, by its last letter.
WidthOf(name) ==
    LET c == Verb(name)[Len(Verb(name))]
    IN  CASE c = "b" -> 8 [] c = "w" -> 16 [] c = "l" -> 32 [] OTHER -> 64

\* Every integer of the model fits 32 and 64 bits.
FitsIn(v, bits) == bits >= 32 \/ v < Pow2(bits)

\* C15: a read-width operation whose Response is OkVal of a hex numeral, with
\* or without 0x, of a value that fits the operation's width returns the
\* value.
C15_ReadWidth ==
    (/\ app.f = "decode"
     /\ app.op.name \in {"inb", "inw", "inl", "readb", "readw", "readl", "readq"}
     /\ app.resp.tag = "OkVal"
     /\ IsHexNumeral(app.resp.text)
     /\ FitsIn(NumeralValue(HexBody(app.resp.text), 16), WidthOf(app.op.name)))
      => /\ app.res.tag = "Num"
         /\ app.res.num = NumeralValue(HexBody(app.resp.text), 16)

\* readq decoded the line "OK 0x2a" and returned 42.
C15_Witness ==
    /\ app.f = "decode" /\ app.op.name = "readq"
    /\ app.s = <<"O", "K", " ", "0", "x", "2", "a">>
    /\ app.res.tag = "Num" /\ app.res.num = 42

\* C16: a value-returning operation whose Response is Ok or Err, or, for a
\* numeric one, OkVal of a payload that is no numeral of the operation's base,
\* returns an error.
C16_Claim ==
    (/\ app.f = "decode"
     /\ \/ /\ app.op.name \in {"clock_set", "inb", "inw", "inl", "readb", "readw",
                               "readl", "readq", "read"}
           /\ app.resp.tag \in {"Ok", "Err"}
        \/ /\ app.op.name = "clock_set"
           /\ app.resp.tag = "OkVal" /\ ~IsDecNumeral(app.resp.text)
        \/ /\ app.op.name \in {"inb", "inw", "inl", "readb", "readw", "readl", "readq"}
           /\ app.resp.tag = "OkVal" /\ ~IsHexNumeral(app.resp.text))
      => app.res.tag = "Err"

\* C17: after a background task has failed internally (a chunk that is not
\* UTF-8, or a send whose receiver is gone), a call invoked on the live engine
\* does not wait forever (while it waits, something that leads to its return
\* can still happen), and what it returns after a successful send is the
\* channel-closed error.
C17_Claim ==
    /\ (eng_pc = "recv" /\ cur.after_fail /\ parser_alive) => ENABLED PipelineStep
    /\ \A k \in 1..Len(results) :
         (results[k].after_fail /\ results[k].sent) =>
             results[k].res = CouldNotReceive

-----------------------------------------------------------------------------
\* The three channels under a flood: the peer writes numbered lines, IRQ
\* lines or response lines, as fast as the socket takes them, while the IRQ
\* receiver and the caller take items at any pace, including never.

MaxFlood == 33

FloodIrqLine(k) ==
    <<"I", "R", "Q", " ", "r", "a", "i", "s", "e", " ">> \o FmtDec(k) \o <<NL>>

FloodRespLine(k) == <<"O", "K", " ">> \o FmtDec(k) \o <<NL>>

\* The peer writes the next IRQ line once the socket buffer is drained.
FloodIrq ==
    /\ conn = "open" /\ sock_buf = <<>> /\ peer_resp = <<>>
    /\ Len(irq_sent) < MaxFlood
    /\ LET line == FloodIrqLine(Len(irq_sent) + 1)
       IN  /\ sock_buf' = line
           /\ irq_sent' = Append(irq_sent, [line |-> IrqTryFrom(line).line,
                                             state |-> IrqTryFrom(line).state])
    /\ UNCHANGED <<kind, write_stream, parser_alive, rx_irq_alive, engine_vars, conn,
                   to_peer, in_flight, peer_resp, fwd_vars, raw_q, rd_vars, irq_q,
                   resp_q, irq_seen, fmt, app, ub, att>>

\* The peer writes the next response line once the socket buffer is drained.
FloodResp ==
    /\ conn = "open" /\ sock_buf = <<>> /\ irq_sent = <<>>
    /\ Len(peer_resp) < MaxFlood
    /\ sock_buf' = FloodRespLine(Len(peer_resp) + 1)
    /\ peer_resp' = Append(peer_resp, FloodRespLine(Len(peer_resp) + 1))
    /\ UNCHANGED <<kind, write_stream, parser_alive, rx_irq_alive, engine_vars, conn,
                   to_peer, in_flight, irq_sent, fwd_vars, raw_q, rd_vars, irq_q,
                   resp_q, irq_seen, fmt, app, ub, att>>

\* clock_step(None) whose request the socket takes whole: the call goes on
\* to response_queue.recv().
FloodCall ==
    /\ parser_alive /\ eng_pc = "idle" /\ conn = "open"
    /\ LET op == Op("clock_step", 0, 0, FALSE, <<>>, <<>>)
           data == Request(op)
           r == send(kind, write_stream, data, [ok |-> TRUE, n |-> Len(data), err |-> ""])
       IN  /\ r.ok
           /\ to_peer' = to_peer \o SubSeq(data, 1, r.n)
           /\ eng_pc' = "recv"
           /\ cur' = [op |-> op, full |-> (r.n = Len(data)),
                      after_eof |-> (fwd_pc = "returned"),
                      after_fail |-> InternalFailure]
    /\ UNCHANGED <<kind, write_stream, parser_alive, rx_irq_alive, results, conn,
                   in_flight, sock_buf, fwd_vars, raw_q, rd_vars, irq_q, resp_q,
                   peer_resp, irq_sent, irq_seen, fmt, app, ub, att>>

FloodNext ==
    \/ AttachConnection
    \/ FloodIrq
    \/ FloodResp
    \/ FwdRead
    \/ FwdSend
    \/ RdRecv
    \/ RdEmit
    \/ IrqRecv
    \/ FloodCall
    \/ EngineRecv

SpecFlood == Init /\ [][FloodNext]_vars

-----------------------------------------------------------------------------
\* A Response behind a burst of IRQ lines: the peer emits MaxFlood IRQ lines
\* and then answers the request of a pending call, while the IRQ receiver
\* takes events at any pace, including never.

\* The peer consumes the request line and writes its answer after the last
\* IRQ line of the burst.
StallAnswer ==
    /\ conn = "open" /\ sock_buf = <<>> /\ peer_resp = <<>>
    /\ Len(irq_sent) = MaxFlood
    /\ Contains(to_peer, NL)
    /\ to_peer' = AfterFirstLine(to_peer)
    /\ sock_buf' = <<"O", "K", NL>>
    /\ peer_resp' = <<<<"O", "K", NL>>>>
    /\ UNCHANGED <<kind, write_stream, parser_alive, rx_irq_alive, engine_vars, conn,
                   in_flight, irq_sent, fwd_vars, raw_q, rd_vars, irq_q, resp_q,
                   irq_seen, fmt, app, ub, att>>

StallNext ==
    \/ AttachConnection
    \/ FloodIrq
    \/ StallAnswer
    \/ FwdRead
    \/ FwdSend
    \/ RdRecv
    \/ RdEmit
    \/ IrqRecv
    \/ FloodCall
    \/ EngineRecv

SpecStall == Init /\ [][StallNext]_vars

-----------------------------------------------------------------------------
\* A sequence of engine calls: up to MaxCalls calls on a connected Parser,
\* with a peer that answers request lines and may emit one IRQ line, every
\* line arriving whole, and a caller that may have discarded the IRQ receiver.

MaxCalls == 2

\* The calls made so far, the one in progress included.
CallsStarted == Len(results) + (IF eng_pc = "recv" THEN 1 ELSE 0)

\* An engine call that writes its request although another call of the same
\* Parser is at response_queue.recv().
Call_Overlap(op, outcome) ==
    /\ parser_alive
    /\ CallsStarted < MaxCalls
    /\ LET data == Request(op)
           r == send(kind, write_stream, data, outcome)
       IN  IF r.ok
           THEN /\ to_peer' = to_peer \o SubSeq(data, 1, r.n)
                /\ eng_pc' = "recv"
                /\ cur' = [op |-> op, full |-> (r.n = Len(data)),
                           after_eof |-> (fwd_pc = "returned"),
                           after_fail |-> InternalFailure]
                /\ UNCHANGED results
           ELSE /\ results' = Append(results,
                                     [op |-> op, sent |-> FALSE, full |-> FALSE,
                                      after_eof |-> (fwd_pc = "returned"),
                                      after_fail |-> InternalFailure,
                                      res |-> ResErr(r.err, <<>>)])
                /\ UNCHANGED <<to_peer, eng_pc, cur>>
    /\ UNCHANGED <<kind, write_stream, parser_alive, rx_irq_alive, conn, in_flight,
                   sock_buf, fwd_vars, raw_q, rd_vars, irq_q, resp_q, peer_resp,
                   irq_sent, irq_seen, fmt, app, ub, att>>

\* The first half of an engine call, pub async fn op(&mut self, ..): the
\* exclusive borrow admits it only when no other call of this Parser is in
\* progress; it formats the request and sends it, and an Ok(n) goes on to
\* response_queue.recv().
Call(op, outcome) ==
    /\ parser_alive /\ eng_pc = "idle"
    /\ CallsStarted < MaxCalls
    /\ LET data == Request(op)
           r == send(kind, write_stream, data, outcome)
       IN  IF r.ok
           THEN /\ to_peer' = to_peer \o SubSeq(data, 1, r.n)
                /\ eng_pc' = "recv"
                /\ cur' = [op |-> op, full |-> (r.n = Len(data)),
                           after_eof |-> (fwd_pc = "returned"),
                           after_fail |-> InternalFailure]
                /\ UNCHANGED results
           ELSE /\ results' = Append(results,
                                     [op |-> op, sent |-> FALSE, full |-> FALSE,
                                      after_eof |-> (fwd_pc = "returned"),
                                      after_fail |-> InternalFailure,
                                      res |-> ResErr(r.err, <<>>)])
                /\ UNCHANGED <<to_peer, eng_pc, cur>>
    /\ UNCHANGED <<kind, write_stream, parser_alive, rx_irq_alive, conn, in_flight,
                   sock_buf, fwd_vars, raw_q, rd_vars, irq_q, resp_q, peer_resp,
                   irq_sent, irq_seen, fmt, app, ub, att>>

\* The peer emits its one IRQ line.
CallsIrq(line) ==
    /\ conn = "open" /\ in_flight = <<>> /\ irq_sent = <<>>
    /\ sock_buf' = sock_buf \o line
    /\ irq_sent' = <<[line |-> IrqTryFrom(line).line, state |-> IrqTryFrom(line).state]>>
    /\ UNCHANGED <<kind, write_stream, parser_alive, rx_irq_alive, engine_vars, conn,
                   to_peer, in_flight, peer_resp, fwd_vars, raw_q, rd_vars, irq_q,
                   resp_q, irq_seen, fmt, app, ub, att>>

CallsNext ==
    \/ AttachConnection
    \/ DropIrqRx
    \/ \E op \in EngineOps :
         \E outcome \in WriteOutcomes(kind, Request(op), conn = "open") :
           Call(op, outcome)
    \/ EngineRecv
    \/ \E line \in RespLines : PeerAnswer(line, 0)
    \/ \E line \in IrqLines : CallsIrq(line)
    \/ FwdRead
    \/ FwdSend
    \/ RdRecv
    \/ RdEmit
    \/ IrqRecv

SpecCalls == Init /\ [][CallsNext]_vars

-----------------------------------------------------------------------------
\* The end of the stream: the peer writes up to MaxLines lines, whole or with
\* their end still on the network, and closes the connection at any moment;
\* no read fails.

MaxLines == 2

\* The peer writes a line on its own; the part before the cut arrives at
\* once.
CloseWrite(line, cut) ==
    /\ conn = "open" /\ in_flight = <<>>
    /\ Len(peer_resp) + Len(irq_sent) < MaxLines
    /\ sock_buf' = sock_buf \o Arrived(line, cut)
    /\ in_flight' = Pending(line, cut)
    /\ IF IrqTryFrom(line).ok
       THEN /\ irq_sent' = Append(irq_sent, [line |-> IrqTryFrom(line).line,
                                              state |-> IrqTryFrom(line).state])
            /\ UNCHANGED peer_resp
       ELSE /\ peer_resp' = Append(peer_resp, line)
            /\ UNCHANGED irq_sent
    /\ UNCHANGED <<kind, write_stream, parser_alive, rx_irq_alive, engine_vars, conn,
                   to_peer, fwd_vars, raw_q, rd_vars, irq_q, resp_q, irq_seen, fmt,
                   app, ub, att>>

\* The peer closes the connection; what it had not put on the network is lost.
CloseNow ==
    /\ conn = "open"
    /\ conn' = "closed"
    /\ in_flight' = <<>>
    /\ UNCHANGED <<kind, write_stream, parser_alive, rx_irq_alive, engine_vars,
                   to_peer, sock_buf, fwd_vars, raw_q, rd_vars, irq_q, resp_q,
                   peer_resp, irq_sent, irq_seen, fmt, app, ub, att>>

CloseNext ==
    \/ AttachConnection
    \/ \E line \in RespLines \cup IrqLines : \E cut \in Cuts(line) : CloseWrite(line, cut)
    \/ Deliver
    \/ CloseNow
    \/ FwdRead
    \/ FwdSend
    \/ RdRecv
    \/ RdEmit
    \/ IrqRecv

SpecClose == Init /\ [][CloseNext]_vars

-----------------------------------------------------------------------------
\* SocketUnix::new against the file system.  ub.file is what the path names:
\* nothing, a socket file, or a directory.  Each system call draws its result
\* from the results the file system can give in that state; another process
\* may change the path between two calls.

MaxNew == 2
MaxRaces == 2

\* UnixListener::bind(path): the path exists or not, the directory allows
\* the access or not, the parent directory exists or not.
BindOutcomes(file) ==
    IF file = "absent" THEN {"Ok", "PermissionDenied", "NotFound"}
    ELSE {"AddrInUse", "PermissionDenied"}

\* fs::remove_file(path)
RemoveOutcomes(file) ==
    CASE file = "socket" -> {"Ok", "PermissionDenied"}
      [] file = "dir"    -> {"IsADirectory", "PermissionDenied"}
      [] OTHER           -> {"NotFound", "PermissionDenied"}

\* A match that goes on to the deletion after every failure of the first
\* bind.
AfterFirstBind_AnyError(e) == IF e = "Ok" THEN "done" ELSE "remove"

\* match on the first bind: Ok returns, AddrInUse goes on to remove_file,
\* any other kind returns the error.
AfterFirstBind(e) ==
    IF e = "Ok" THEN "done" ELSE IF e = "AddrInUse" THEN "remove" ELSE "done"

\* match on remove_file: Ok goes on to the second bind, Err returns.
AfterRemove(e) == IF e = "Ok" THEN "bind2" ELSE "done"

UbUnchanged ==
    UNCHANGED <<kind, write_stream, parser_alive, rx_irq_alive, engine_vars,
                peer_vars, sock_buf, fwd_vars, raw_q, rd_vars, irq_q, resp_q,
                irq_seen, fmt, app, att>>

\* SocketUnix::new(path, out_handler) is called.
UbNew ==
    /\ ub.pc \in {"none", "done"} /\ ub.calls < MaxNew
    /\ ub' = [NoBind EXCEPT !.pc = "bind1", !.file = ub.file, !.calls = ub.calls,
                            !.races = ub.races]
    /\ UbUnchanged

\* The first UnixListener::bind(path).
UbBind1 ==
    /\ ub.pc = "bind1"
    /\ \E e \in BindOutcomes(ub.file) :
         ub' = [ub EXCEPT !.pc = AfterFirstBind(e), !.first = e, !.binds = @ + 1,
                          !.file = IF e = "Ok" THEN "socket" ELSE @,
                          !.res = IF AfterFirstBind(e) = "done" THEN e ELSE @,
                          !.calls = IF AfterFirstBind(e) = "done" THEN @ + 1 ELSE @]
    /\ UbUnchanged

\* fs::remove_file(path)
UbRemove ==
    /\ ub.pc = "remove"
    /\ \E e \in RemoveOutcomes(ub.file) :
         ub' = [ub EXCEPT !.pc = AfterRemove(e), !.remove = e, !.removes = @ + 1,
                          !.file = IF e = "Ok" THEN "absent" ELSE @,
                          !.res = IF AfterRemove(e) = "done" THEN e ELSE @,
                          !.calls = IF AfterRemove(e) = "done" THEN @ + 1 ELSE @]
    /\ UbUnchanged

\* The second UnixListener::bind(path); its result is returned either way.
UbBind2 ==
    /\ ub.pc = "bind2"
    /\ \E e \in BindOutcomes(ub.file) :
         ub' = [ub EXCEPT !.pc = "done", !.second = e, !.binds = @ + 1,
                          !.file = IF e = "Ok" THEN "socket" ELSE @,
                          !.res = e, !.calls = @ + 1]
    /\ UbUnchanged

\* Another process creates, replaces or removes what the path names.
UbOther ==
    /\ ub.races < MaxRaces
    /\ \E f \in {"absent", "socket", "dir"} \ {ub.file} :
         ub' = [ub EXCEPT !.file = f, !.races = @ + 1]
    /\ UbUnchanged

BindNext == UbNew \/ UbBind1 \/ UbRemove \/ UbBind2 \/ UbOther

SpecBind == Init /\ [][BindNext]_vars

\* C18: SocketUnix::new binds at most twice and deletes at most once; the
\* second bind is made exactly when the first failed with AddrInUse and the
\* deletion succeeded; nothing is deleted unless the first bind failed with
\* AddrInUse; and what is returned is the first bind's success, or the error
\* of the step that failed, with the counts final at that point.
C18_BindTwice ==
    /\ ub.binds <= 2 /\ ub.removes <= 1
    /\ ub.binds = 2 => (ub.first = "AddrInUse" /\ ub.remove = "Ok")
    /\ ub.removes > 0 => ub.first = "AddrInUse"
    /\ ub.pc = "done" =>
         /\ ub.binds = IF ub.first = "AddrInUse" /\ ub.remove = "Ok" THEN 2 ELSE 1
         /\ ub.removes = IF ub.first = "AddrInUse" THEN 1 ELSE 0
         /\ ub.res = IF ub.first # "AddrInUse" THEN ub.first
                     ELSE IF ub.remove # "Ok" THEN ub.remove
                     ELSE ub.second

\* The first bind failed with AddrInUse, the stale path was deleted, another
\* process took the path again and the second bind failed: two binds, one
\* deletion, the second bind's error returned.
C18_Witness ==
    /\ ub.pc = "done" /\ ub.first = "AddrInUse" /\ ub.remove = "Ok"
    /\ ub.second = "AddrInUse" /\ ub.res = "AddrInUse"
    /\ ub.binds = 2 /\ ub.removes = 1

\* The messages the forwarding task sends under the flood: one read of each
\* line, zero-padded to the buffer.
FloodIrqBlocks == [k \in 1..MaxFlood |-> BufText(FloodIrqLine(k))]
FloodRespBlocks == [k \in 1..MaxFlood |-> BufText(FloodRespLine(k))]
FloodBlocks == IF peer_resp = <<>> THEN FloodIrqBlocks ELSE FloodRespBlocks

\* The Response of each response block.
FloodResponses ==
    [k \in 1..MaxFlood |-> ResponseFrom(trim_matches(FloodRespBlocks[k], NUL))]

\* The number of messages the forwarding task has handed to out_handler.send
\* and the number of them the Reader has received.
RawSent == n_fwd
RawReceived == n_fwd - Len(raw_q)

\* The number of received messages whose line the Reader has sent on.
LinesSent == RawReceived - (IF rd_pc = "emit" THEN 1 ELSE 0)

\* The Responses the caller has received, in order.
RespTaken == [k \in 1..Len(results) |-> results[k].res.resp]

\* No channel holds more than 32 items, and every item sent is queued or
\* received, in the order sent.
FloodConserved ==
    /\ Len(raw_q) <= 32 /\ Len(irq_q) <= 32 /\ Len(resp_q) <= 32
    /\ RawSent = Len(irq_sent) + Len(peer_resp) - (IF msg = <<>> THEN 0 ELSE 1)
                   - (IF sock_buf = <<>> THEN 0 ELSE 1)
    /\ raw_q = SubSeq(FloodBlocks, RawReceived + 1, RawSent)
    /\ rd_pc = "emit" => raw_data = FloodBlocks[RawReceived]
    /\ IF peer_resp = <<>>
       THEN /\ irq_seen \o irq_q = SubSeq(irq_sent, 1, LinesSent)
            /\ resp_q = <<>> /\ results = <<>>
       ELSE /\ RespTaken \o resp_q = SubSeq(FloodResponses, 1, LinesSent)
            /\ irq_q = <<>> /\ irq_seen = <<>>

\* A producer whose channel is full makes no step: it keeps what it holds.
FloodSuspended ==
    /\ (fwd_pc = "send" /\ Len(raw_q) = 32) =>
          (fwd_pc' = "send" /\ msg' = msg /\ n_fwd' = n_fwd /\ Len(raw_q') <= 32)
    /\ (Len(irq_q) = 32 /\ rd_pc = "emit" /\ IrqTryFrom(Head(todo)).ok) =>
          (rd_pc' = "emit" /\ todo' = todo /\ Len(irq_q') <= 32)
    /\ (Len(resp_q) = 32 /\ rd_pc = "emit" /\ ~IrqTryFrom(Head(todo)).ok) =>
          (rd_pc' = "emit" /\ todo' = todo /\ Len(resp_q') <= 32)

\* C19: none of the three channels ever holds more than 32 items; a producer
\* that finds its channel full stays where it is until an item is taken; and
\* every item sent is either still queued or has been received, in the order
\* in which it was sent.
C19_Bounded == []FloodConserved /\ [][FloodSuspended]_vars

\* The IRQ channel is full with the events of lines 1..32 and the Reader,
\* holding line 33, is suspended on its send.
C19_Witness ==
    /\ Len(irq_q) = 32 /\ irq_seen = <<>>
    /\ rd_pc = "emit" /\ Len(todo) = 1 /\ IrqTryFrom(Head(todo)) = IrqNew(33, "Raise")
    /\ irq_q = SubSeq(irq_sent, 1, 32)

\* The raw channel is full and the forwarding task is suspended on its send.
C19_RawFull == Len(raw_q) = 32 /\ fwd_pc = "send"

\* The Response channel is full and the Reader is suspended on its send.
C19_RespFull == Len(resp_q) = 32 /\ rd_pc = "emit"

\* C20: when no read has failed, every message the forwarding task has
\* handed to the channel, its zero padding left aside, ends with a newline.
\* (msg at "send" is the message about to be forwarded.)
C20_Claim ==
    read_errs = 0 =>
        /\ \A i \in 1..Len(raw_q) :
              LET t == SelectSeq(raw_q[i], LAMBDA c : c # NUL)
              IN  t # <<>> /\ t[Len(t)] = NL
        /\ fwd_pc = "send" =>
              LET t == SelectSeq(msg, LAMBDA c : c # NUL)
              IN  t # <<>> /\ t[Len(t)] = NL

-----------------------------------------------------------------------------
\* attach_connection called more than once.  att.conns holds, for every
\* connection accept() has returned, the state of its forwarding task and of
\* its peer; att.ws is the connection whose write half is stored; att.fed is
\* the connection each message put on the output channel came from.

MaxConns == 3
MaxFeeds == 3

AttUnchanged ==
    UNCHANGED <<kind, write_stream, parser_alive, rx_irq_alive, engine_vars,
                peer_vars, sock_buf, fwd_vars, raw_q, rd_vars, irq_q, resp_q,
                irq_seen, fmt, app, ub>>

\* attach_connection: accept() returns a new connection, its write half
\* replaces the stored one, and a forwarding task is spawned on its read half
\* with a clone of out_handler.  Nothing stops the tasks spawned before.
AttAttach ==
    /\ Len(att.conns) < MaxConns
    /\ att' = [att EXCEPT !.conns = Append(@, [task |-> "read", peer |-> "open"]),
                           !.ws = Len(att.conns) + 1]
    /\ AttUnchanged

\* The peer of connection c writes a line; the task of c reads it and sends
\* it on the output channel.
AttFeed(c) ==
    /\ att.conns[c].task = "read" /\ att.conns[c].peer = "open"
    /\ Len(att.fed) < MaxFeeds
    /\ att' = [att EXCEPT !.fed = Append(@, c)]
    /\ AttUnchanged

\* The peer of connection c closes it.
AttPeerClose(c) ==
    /\ att.conns[c].peer = "open"
    /\ att' = [att EXCEPT !.conns[c].peer = "closed"]
    /\ AttUnchanged

\* The task of connection c reads Ok(0) and returns.
AttTaskEof(c) ==
    /\ att.conns[c].task = "read" /\ att.conns[c].peer = "closed"
    /\ att' = [att EXCEPT !.conns[c].task = "returned"]
    /\ AttUnchanged

AttNext ==
    \/ AttAttach
    \/ \E c \in 1..Len(att.conns) : AttFeed(c)
    \/ \E c \in 1..Len(att.conns) : AttPeerClose(c)
    \/ \E c \in 1..Len(att.conns) : AttTaskEof(c)

SpecAttach == Init /\ [][AttNext]_vars

\* C21: whatever the number of attach_connection calls, the messages put on
\* the transport's output channel all come from the forwarding task of one
\* connection.
C21_Claim == \A i, j \in 1..Len(att.fed) : att.fed[i] = att.fed[j]

\* All the lines of the block the demultiplexer holds, the empty ones too.
AllBlockLines == lines(trim_matches(raw_data, NUL))

C23_Claim ==
    /\ rd_pc \in {"returned", "panicked"} => RawSendersGone
    /\ fwd_pc \in {"returned", "panicked", "panicked_utf8"} => conn = "closed"

\* C24: with a Response behind MaxFlood IRQ lines in the stream, no Response
\* is in the Response channel or in the engine's hands before the consumer
\* has received all the events but 32; and while the demultiplexer is
\* suspended on the full IRQ channel, the Response channel is empty and open,
\* so a call waiting for its Response cannot return.
C24_Stall ==
    /\ (results # <<>> \/ resp_q # <<>>) => Len(irq_seen) >= MaxFlood - 32
    /\ (Len(irq_q) = 32 /\ rd_pc = "emit" /\ IrqTryFrom(Head(todo)).ok) =>
          (resp_q = <<>> /\ results = <<>> /\ ~ResponseSenderGone)

\* The IRQ channel holds 32 events the consumer has not received, the
\* demultiplexer is suspended on the next IRQ line, the peer's answer has been
\* forwarded to the raw channel, and the call is waiting for it.
C24_Witness ==
    /\ Len(irq_q) = 32 /\ irq_seen = <<>>
    /\ rd_pc = "emit" /\ IrqTryFrom(Head(todo)).ok
    /\ peer_resp # <<>> /\ raw_q # <<>>
    /\ raw_q[Len(raw_q)] = BufText(<<"O", "K", NL>>)
    /\ eng_pc = "recv" /\ resp_q = <<>>

\* The operations that return the Response itself.
RawFamilies ==
    {"clock_step", "irq_intercept_in", "irq_intercept_out", "set_irq_in", "outb",
     "outw", "outl", "writeb", "writew", "writel", "writeq", "write", "b64write"}

\* C25: an operation of the raw-Response families returns, as its success
\* value, the Response it took from the channel, unchanged: Ok, OkVal with
\* its payload, or Err with its text.
C25_RawResponse ==
    (app.f = "decode" /\ app.op.name \in RawFamilies) =>
        /\ app.res.tag = "Response"
        /\ app.res.resp = app.resp
        /\ app.res.err = ""

\* outb took the Response of the line "ERR x", Err("ERR x"), and returned it
\* as its success value.
C25_Witness ==
    /\ app.f = "decode" /\ app.op.name = "outb"
    /\ app.resp = RespErr(<<"E", "R", "R", " ", "x">>)
    /\ app.res.tag = "Response" /\ app.res.resp = RespErr(<<"E", "R", "R", " ", "x">>)

\* The widths the model represents in full.
ExactWidth(name) == WidthOf(name) < 32

\* C29: a read-width operation whose Response is OkVal of a hex numeral
\* above the operation's width returns an error; and a value it returns for
\* a hex numeral is the numeral's value, at least 0 and below 2^width.
C29_NoWrap ==
    (/\ app.f = "decode"
     /\ app.op.name \in {"inb", "inw", "inl", "readb", "readw", "readl", "readq"}
     /\ app.resp.tag = "OkVal"
     /\ IsHexNumeral(app.resp.text))
      => LET v == NumeralValue(HexBody(app.resp.text), 16)
         IN  /\ ~FitsIn(v, WidthOf(app.op.name)) => app.res.tag = "Err"
             /\ app.res.tag = "Num" =>
                   /\ app.res.num = v /\ app.res.num >= 0
                   /\ ExactWidth(app.op.name) => app.res.num < Pow2(WidthOf(app.op.name))

\* inb decoded the line "OK 0x100", whose value 256 is above 8 bits, and
\* returned an error.
C29_Witness ==
    /\ app.f = "decode" /\ app.op.name = "inb"
    /\ app.s = <<"O", "K", " ", "0", "x", "1", "0", "0">>
    /\ app.res.tag = "Err"

\* Everything the peer wrote has arrived and has been handled.
StreamHandled ==
    /\ conn = "open" /\ in_flight = <<>> /\ sock_buf = <<>>
    /\ fwd_pc = "read" /\ msg = <<>> /\ raw_q = <<>> /\ rd_pc = "recv"

\* The Responses the demultiplexer emits when each response line the peer
\* wrote is delivered alone in one read.
LineByLineResponses ==
    [k \in 1..Len(peer_resp) |->
        ResponseFrom(trim_matches(BufText(peer_resp[k]), NUL))]

\* The number of Responses the calls have taken from the channel.
ResponsesTaken ==
    Len(SelectSeq(results, LAMBDA r : r.sent /\ r.res # CouldNotReceive))

\* C26: once the stream of complete lines the peer wrote has been handled,
\* with no read error and both receivers held, the IrqEvents emitted are
\* those of the IRQ lines, in order, and the Responses emitted are those of
\* the response lines delivered one per read, the ones not yet taken being
\* the last of them in order, however the stream was split into reads.
C26_Claim ==
    (StreamHandled /\ read_errs = 0 /\ rx_irq_alive /\ parser_alive) =>
        /\ irq_seen \o irq_q = irq_sent
        /\ ResponsesTaken + Len(resp_q) = Len(peer_resp)
        /\ resp_q = SubSeq(LineByLineResponses, ResponsesTaken + 1, Len(peer_resp))

\* The calls whose request was written, the one in progress included, and
\* those of them that have returned.
SentCalls ==
    Len(SelectSeq(results, LAMBDA r : r.sent)) + (IF eng_pc = "recv" THEN 1 ELSE 0)
ReturnedSent == Len(SelectSeq(results, LAMBDA r : r.sent))

\* A call writes its request.
RequestWritten == Len(to_peer') > Len(to_peer)

\* C27 as stated: at any time at most one request has been written for which
\* no Response has been taken from the channel.
C27_Claim == SentCalls - ResponsesTaken <= 1

\* C27: a request is written only when no call of the Parser is in progress,
\* every call that wrote a request before having returned, with a Response
\* taken or with the channel-closed error; so at most one request has been
\* written by a call that has not returned.
C27_Amended ==
    [][RequestWritten =>
          /\ eng_pc = "idle" /\ SentCalls = ReturnedSent
          /\ eng_pc' = "recv" /\ SentCalls' = ReturnedSent' + 1]_vars

\* The first call wrote its request and returned the channel-closed error
\* without a Response; the second call has written its request and waits.
C27_Witness ==
    /\ Len(results) = 1 /\ results[1].sent /\ results[1].res = CouldNotReceive
    /\ eng_pc = "recv"

\* C28: a call that is waiting for its Response, or has waited for it, has
\* written the whole text of its request to the connection.
C28_Claim ==
    /\ eng_pc = "recv" => cur.full
    /\ \A k \in 1..Len(results) : results[k].sent => results[k].full

\* The forwarding task reads Ok(0) and returns.
FwdReturns == fwd_pc = "read" /\ fwd_pc' = "returned"

\* The last message the forwarding task put on the raw channel: the last one
\* queued, or the one the demultiplexer received last.
LastForwarded == IF raw_q # <<>> THEN raw_q[Len(raw_q)] ELSE raw_data

\* The text of a message without its zero padding.
Unpadded(m) == SelectSeq(m, LAMBDA c : c # NUL)

\* C30: when the forwarding task returns on the peer's close, it forwards
\* nothing more, whatever text it holds; and once it has returned, the last
\* message it forwarded ends with a newline, so that the text of an
\* unterminated final line has reached the demultiplexer in no message.
C30_Claim ==
    /\ [][FwdReturns => (raw_q' = raw_q /\ n_fwd' = n_fwd)]_vars
    /\ []((fwd_pc = "returned" /\ read_errs = 0 /\ n_fwd > 0) =>
             Unpadded(LastForwarded)[Len(Unpadded(LastForwarded))] = NL)

\* The part of C30 about the text held at the close: the return forwards
\* nothing.
C30_HeldTextDiscarded == [][FwdReturns => (raw_q' = raw_q /\ n_fwd' = n_fwd)]_vars

=============================================================================
